---- MODULE Spec2Model ----
(***************************************************************************)
(* The external tool-server connection layer of openwork:                  *)
(*   MCPClient  (mcp/client.ts)   one connection, its status machine       *)
(*   MCPManager (mcp/manager.ts)  the pool: registry, catalog, dispatch    *)
(*   converter  (mcp/converter.ts) namespaced tool ids                     *)
(*   converter  (mcp/converter.ts) JSON Schema to zod                      *)
(* the agent executor (agent/executor.ts):                                 *)
(*   AgentExecutor.stream      the event stream of one run                 *)
(*   AgentExecutor.initialize  prompt, skills and tools of a configuration *)
(* and the skills:                                                         *)
(*   SkillLoader (skills/loader.ts)   the skills an agent refers to        *)
(*   SkillDiscoveryService            documents, cache, trigger matching   *)
(* Every async method is cut at its awaits: the code between two awaits    *)
(* is one atomic step, and the settlement of an awaited SDK promise is a   *)
(* choice of the environment.                                              *)
(***************************************************************************)
EXTENDS Integers, Sequences, FiniteSets, TLC

(* ------------------------------ bounds --------------------------------- *)
\* connect() and disconnect() executions that pass their guard, in all
MaxAttempts == 2
\* steps of the SDK's loop in one stream (settings.maxToolCalls)
MaxSteps == 2
\* tools the model calls in one step
MaxCalls == 2
\* initialize() calls of one executor that may overlap
MaxInits == 2
\* versions a skill document goes through in the document store
MaxVer == 2
\* loadSkill calls made on the discovery service, one after another or overlapping
MaxLoads == 2
\* references in a list handed to loadForAgent
MaxRefs == 2
\* characters of an input handed to matchTriggers
MaxInput == 2
\* characters of a trigger
MaxTrigger == 2
\* triggers of the skills handed to matchTriggers, in all
MaxTriggers == 1
\* content blocks in the answer to a tool call
MaxBlocks == 2

(* ------------------------------ strings -------------------------------- *)
\* A string is a sequence of one-character strings.
Min(S) == CHOOSE x \in S : \A y \in S : x <= y

\* String.prototype.startsWith
StartsWith(s, p) == Len(s) >= Len(p) /\ SubSeq(s, 1, Len(p)) = p

\* String.prototype.indexOf for a one-character needle (0-based, -1 if absent)
IndexOf(s, ch) ==
  IF \E i \in 1..Len(s) : s[i] = ch
  THEN Min({i \in 1..Len(s) : s[i] = ch}) - 1
  ELSE -1

\* String.prototype.slice(from) and slice(from, to), 0-based, to exclusive
SliceFrom(s, from) == SubSeq(s, from + 1, Len(s))
Slice(s, from, to) == SubSeq(s, from + 1, to)

Prefix == <<"m", "c", "p", "_">>

\* converter.ts getMCPToolId: `mcp_${serverId}_${toolName}`
getMCPToolId(serverId, toolName) == Prefix \o serverId \o <<"_">> \o toolName

(* ------------------------- servers of the model ------------------------ *)
IdA  == <<"a">>
IdAB == <<"a", "_", "b">>
\* the ids a configuration may carry (types.ts: id is any non-empty string)
ServerIds == {IdA, IdAB}

NameC  == <<"c">>
NameBC == <<"b", "_", "c">>
ToolNames == {NameC, NameBC}

\* What tools/list of the server behind a configuration answers.
ListedTools(id) == IF id = IdA THEN <<NameC, NameBC>> ELSE <<NameC>>

\* the configurations a caller may add: one enabled, one disabled
Configs == {[id |-> IdA, enabled |-> TRUE], [id |-> IdAB, enabled |-> FALSE]}

Args == {"x", "y"}

\* MCPClient objects: the manager creates one per addServer.
MaxClients == Cardinality(ServerIds)
Objs == 1..MaxClients

(* ------------------------------- state --------------------------------- *)
VARIABLES
  clients,      \* MCPManager.clients: the registered client objects, in Map order
  nObj,         \* number of MCPClient objects constructed so far
  cfg,          \* MCPClient.config of each object: [id, enabled]
  status,       \* MCPClient._status
  error,        \* MCPClient._error ("" is undefined)
  tools,        \* MCPClient._tools: sequence of tool names
  connectedAt,  \* MCPClient._connectedAt (0 is undefined)
  transport,    \* MCPClient.transport: 0 is null, else the transport's number
  topen,        \* each created transport of an object: still open?
  attempts,     \* each connect() execution that passed the guard: where it stands
  disc,         \* disconnect() executions in flight: how many at each await
  call,         \* the tool call in flight, or the result of the last one
  left,         \* connect() and disconnect() executions the model still admits
  skipped,      \* the status in which the last connect() returned at its guard
  op,           \* the MCPManager operation in flight, or the outcome of the last one
  run,          \* AgentExecutor.stream: the generator in flight and what it yielded
  agent,        \* AgentExecutor: its fields, and its initialize() calls in flight
  skills,       \* SkillDiscoveryService and SkillLoader: files, cache, calls in flight
  fn            \* a pure function applied: its input and what it returned

vars == <<clients, nObj, cfg, status, error, tools, connectedAt, transport,
          topen, attempts, disc, call, left, skipped, op, run, agent, skills, fn>>

\* what the manager's and the stream's steps leave alone
others == <<agent, skills, fn>>

connState == <<status, error, tools, connectedAt, transport, topen, attempts, disc,
               left>>
connVars == <<connState, skipped>>

\* no disconnect() in flight: none awaits client.close(), none a transport.close()
NoDisc == [close |-> 0, tclose |-> [k \in 1..MaxAttempts |-> 0]]
NoCfg == [id |-> <<>>, enabled |-> FALSE]
NoResult == [kind |-> "none", success |-> FALSE, error |-> "", value |-> ""]
\* was: the status the called connection had when the call was made
IdleCall == [pc |-> "idle", sent |-> <<>>, via |-> 0, was |-> "none", result |-> NoResult]

\* No MCPManager operation in flight. Of an operation: kind is the method, pc
\* where it stands ("connect", "close", "tclose": the await inside the connect()
\* or disconnect() it awaits, on object obj, attempt or transport k; "resume": the
\* awaited promise has settled, err its error or "" when it resolved; "done": it
\* has returned ret or thrown err, as out tells).
IdleOp ==
  [kind |-> "none", pc |-> "idle", obj |-> 0, k |-> 0, err |-> "", out |-> "none",
   ret |-> <<>>, i |-> 0, n |-> 0, results |-> <<>>, config |-> NoCfg, auto |-> FALSE,
   todo |-> <<>>, id |-> <<>>, old |-> 0, was |-> FALSE, configs |-> <<>>]

\* the operation awaits at pc on object c, attempt or transport k
OpAwaits(pc, c, k) == op.pc = pc /\ op.obj = c /\ op.k = k

\* the awaited promise settles: the operation continues in a later turn
Resumed(o, err) == [o EXCEPT !.pc = "resume", !.err = err]

\* connect() execution k of object c ends, resolved (err = "") or rejected: what
\* becomes of the operation
ConnectSettled(c, k, err) == IF OpAwaits("connect", c, k) THEN Resumed(op, err) ELSE op

\* No stream in flight. Of a stream: pc is where the generator stands ("init":
\* awaiting initialize(); "model": in the loop over textStream while the SDK runs
\* the model for step s; "tools": the same while the SDK runs the tools of step
\* s; "final": awaiting the result; "done": returned), script what the model and
\* the tools will do, said whether the text of step s was delivered, events what
\* the generator has yielded.
IdleRun ==
  [pc |-> "idle", script |-> <<>>, mode |-> "last", s |-> 0, said |-> FALSE,
   events |-> <<>>]

(* skills: documents, the discovery service's cache *)
SkillIds == {"s", "t"}
\* the skills directory as readdir lists it, and a path no file is at
Dir == <<"p1", "p2">>
Gone == "gone"
SkillPaths == {Dir[i] : i \in 1..Len(Dir)} \cup {Gone}

\* a skill document in the store: its frontmatter id and its version; NoDoc: no
\* file at the path, or one that does not parse
Docs == [id : SkillIds, ver : 1..MaxVer]
NoDoc == [id |-> "", ver |-> 0]

\* null, where a Skill is expected
NoSkill == [id |-> "", path |-> "", ver |-> 0]

\* SkillRef (providers.ts:206-210)
SkillRefs == [id : SkillIds, path : SkillPaths, enabled : BOOLEAN]

\* A loadSkill call: pc where it stands ("idle": not made; "read": awaiting
\* readFile; "got": the file is read, the continuation not yet run; "done":
\* returned ret); ok: the documents the store held at the path since the last
\* invalidation before the call, inv whether there was one (history).
IdleLoad ==
  [pc |-> "idle", path |-> "", got |-> NoDoc, ret |-> NoSkill, ok |-> {}, inv |-> FALSE]

\* A loadForAgent call: refs its argument, i the reference the loop stands at,
\* out the skills pushed so far, loadedIds the ids recorded; disk0 the store at
\* the call (history).
IdleLoader ==
  [pc |-> "idle", refs |-> <<>>, i |-> 0, out |-> <<>>, loadedIds |-> {},
   disk0 |-> [p \in SkillPaths |-> NoDoc]]

\* The discovery service with an empty cache over an empty store. since: per
\* path, the documents held since the path was last invalidated (history).
IdleSkills ==
  [disk |-> [p \in SkillPaths |-> NoDoc],
   cache |-> <<>>,
   loads |-> [n \in 1..MaxLoads |-> IdleLoad],
   loader |-> [n \in 1..MaxInits |-> IdleLoader],
   since |-> [p \in SkillPaths |-> {}],
   inv |-> [p \in SkillPaths |-> FALSE]]

(* the executor *)
\* AgentConfig (providers.ts:257-268), the fields initialize() reads: the system
\* prompt's source, the skill references, the built-in tool ids, the MCP server
\* references. A text is a sequence of its parts.
NoProfile ==
  [prompt |-> [type |-> "inline", content |-> <<>>, path |-> ""],
   skills |-> <<>>, builtin |-> {}, mcp |-> <<>>]

\* An initialize() call: pc where it stands ("idle": not made; "prompt": awaiting
\* loadSystemPrompt; "skills": in loadSkills, awaiting loadForAgent; "skilled":
\* awaiting loadSkills, which has returned; "stored": in loadMCPTools, awaiting
\* storage.getMCPServer for reference i; "connect": awaiting addServer or
\* connectServer for reference i, on object obj, connect() execution k;
\* "tooled": awaiting loadTools, which has returned; "done": returned).
IdleInit == [pc |-> "idle", i |-> 0, obj |-> 0, k |-> 0]

\* executor.ts:44-51 the executor as constructed; prev: the configuration before
\* the last updateConfig, updated: whether there was one (history)
IdleAgent ==
  [config |-> NoProfile, systemPrompt |-> <<>>, tools |-> [x \in {} |-> 0],
   initialized |-> FALSE, loadedSkills |-> <<>>,
   calls |-> [n \in 1..MaxInits |-> IdleInit],
   prev |-> NoProfile, updated |-> FALSE]

\* no function applied
IdleFn == [f |-> "none", pc |-> "idle"]

\* The manager with nothing registered, no call in flight.
InitManager ==
  /\ left = MaxAttempts
  /\ clients = <<>>
  /\ nObj = 0
  /\ cfg = [c \in Objs |-> NoCfg]
  /\ status = [c \in Objs |-> "disconnected"]
  /\ error = [c \in Objs |-> ""]
  /\ tools = [c \in Objs |-> <<>>]
  /\ connectedAt = [c \in Objs |-> 0]
  /\ transport = [c \in Objs |-> 0]
  /\ topen = [c \in Objs |-> <<>>]
  /\ attempts = [c \in Objs |-> <<>>]
  /\ disc = [c \in Objs |-> NoDisc]
  /\ call = IdleCall
  /\ skipped = "none"
  /\ op = IdleOp
  /\ run = IdleRun

\* The value of agent and of skills where no initialize() and no skill service
\* takes part: the fields they stand for are neither read nor written.
NotInUse == "not in use"

\* The manager with nothing registered and no stream begun.

Init ==
  /\ InitManager
  /\ agent = NotInUse
  /\ skills = NotInUse
  /\ fn = IdleFn

Created == 1..nObj

\* Map.get(serverId) on MCPManager.clients: the object, or 0
Lookup(serverId) ==
  IF \E i \in 1..Len(clients) : cfg[clients[i]].id = serverId
  THEN clients[CHOOSE i \in 1..Len(clients) : cfg[clients[i]].id = serverId]
  ELSE 0

Registered == {clients[i] : i \in 1..Len(clients)}

(* --------------------------- MCPClient.connect ------------------------- *)
InFlight(a) == a.pc \in {"connect", "list"}

\* The mutant forgets the "connecting" half of the guard.
ConnectIsNoop_OnlyConnected(st) == st = "connected"

\* client.ts:77  if (status === "connected" || status === "connecting") return
ConnectIsNoop(st) == st \in {"connected", "connecting"}

NewAttempt == [pc |-> "connect", seen |-> FALSE]
\* a connect() that has returned or thrown
Ended == [pc |-> "ended", seen |-> FALSE]

\* connect() up to its first await (client.ts:77-100): guard, status and error
\* reset, a fresh transport with its handlers, client.connect(transport) started.
ConnectStart(c) ==
  IF ConnectIsNoop(status[c])
  THEN skipped' = status[c] /\ UNCHANGED connState
  ELSE /\ left > 0
       /\ left' = left - 1
       /\ status' = [status EXCEPT ![c] = "connecting"]
       /\ error' = [error EXCEPT ![c] = ""]
       /\ transport' = [transport EXCEPT ![c] = Len(topen[c]) + 1]
       /\ topen' = [topen EXCEPT ![c] = Append(@, TRUE)]
       /\ attempts' = [attempts EXCEPT ![c] = Append(@, NewAttempt)]
       /\ UNCHANGED <<tools, connectedAt, disc, skipped>>

\* connect()'s catch block (client.ts:107-110): status error, message kept, rethrown
ConnectCatch(c, k, msg) ==
  /\ status' = [status EXCEPT ![c] = "error"]
  /\ error' = [error EXCEPT ![c] = msg]
  /\ attempts' = [attempts EXCEPT ![c][k] = Ended]

\* client.ts:146  discoverTools throws unless connected or connecting
DiscoverAllowed(st) == st \in {"connected", "connecting"}

Awaiting(c, k, pc) ==
  /\ c \in Created /\ k \in 1..Len(attempts[c])
  /\ attempts[c][k].pc = pc

\* await client.connect(transport) resolves (client.ts:100), which takes an open
\* transport; discoverTools then runs up to its await of listTools
\* (client.ts:103, 146-151), or throws at its status guard into connect()'s catch.
ConnectResolves(c, k) ==
  /\ Awaiting(c, k, "connect")
  /\ topen[c][k]
  /\ IF DiscoverAllowed(status[c])
     THEN /\ attempts' = [attempts EXCEPT ![c][k].pc = "list"]
          /\ UNCHANGED <<status, error>>
     ELSE ConnectCatch(c, k, "Not connected to MCP server")
  /\ op' = IF DiscoverAllowed(status[c]) THEN op
           ELSE ConnectSettled(c, k, "Not connected to MCP server")
  /\ UNCHANGED <<clients, nObj, cfg, tools, connectedAt, transport, topen, disc, call,
                 left, skipped, run, others>>

\* await client.connect(transport) rejects: connect()'s catch (client.ts:107-110)
ConnectRejects(c, k) ==
  /\ Awaiting(c, k, "connect")
  /\ ConnectCatch(c, k, "connect failed")
  /\ op' = ConnectSettled(c, k, "connect failed")
  /\ UNCHANGED <<clients, nObj, cfg, tools, connectedAt, transport, topen, disc, call,
                 left, skipped, run, others>>

\* await client.listTools() resolves (client.ts:151): _tools is set (153-159),
\* then status connected and the stamp (105-106); connect() returns. Another
\* connect() of the object still in flight has now seen the status connected.
ListResolves(c, k) ==
  /\ Awaiting(c, k, "list")
  /\ topen[c][k]
  /\ tools' = [tools EXCEPT ![c] = ListedTools(cfg[c].id)]
  /\ status' = [status EXCEPT ![c] = "connected"]
  /\ connectedAt' = [connectedAt EXCEPT ![c] = k]
  /\ attempts' = [attempts EXCEPT ![c] =
       [j \in 1..Len(@) |->
          IF j = k THEN Ended
          ELSE IF InFlight(@[j]) THEN [@[j] EXCEPT !.seen = TRUE]
          ELSE @[j]]]
  /\ op' = ConnectSettled(c, k, "")
  /\ UNCHANGED <<clients, nObj, cfg, error, transport, topen, disc, call,
                 left, skipped, run, others>>

\* await client.listTools() rejects: discoverTools records the message and
\* rethrows (client.ts:162-165), connect()'s catch sets status error, records the
\* message and rethrows to the caller (107-110).
ListRejects(c, k) ==
  /\ Awaiting(c, k, "list")
  /\ ConnectCatch(c, k, "list failed")
  /\ op' = ConnectSettled(c, k, "list failed")
  /\ UNCHANGED <<clients, nObj, cfg, tools, connectedAt, transport, topen, disc, call,
                 left, skipped, run, others>>

(* --------------------------- tool call results ------------------------- *)
Failure(msg) == [kind |-> "return", success |-> FALSE, error |-> msg, value |-> ""]
Success(v) == [kind |-> "return", success |-> TRUE, error |-> "", value |-> v]
Thrown(msg) == [kind |-> "throw", success |-> FALSE, error |-> msg, value |-> ""]

\* What the SDK's client.callTool may answer: a toolResult, a list of content
\* blocks (with the text they join to), any other content; each with or without
\* isError. Or the promise rejects.
Responses ==
  [shape : {"toolResult", "blocks", "other"}, isError : BOOLEAN, text : {"", "out"}]

\* The mutant calls the tool whenever the connection is not disconnected.
CallToolRejects_OnlyDisconnected(st) == st = "disconnected"

\* client.ts:175  if (status !== "connected") return {success: false, ...}
CallToolRejects(st) == st # "connected"

\* manager.ts:218  if (client.status !== "connected") return {success: false, ...}
DispatchRejects(st) == st # "connected"

\* client.ts:186-205: the answer mapped to {success, result | error}
MapResponse(r) ==
  IF r.shape = "toolResult" THEN Success("toolResult")
  ELSE IF r.shape = "blocks"
       THEN IF r.isError
            THEN Failure(IF r.text # "" THEN r.text ELSE "Tool execution failed")
            ELSE Success(r.text)
       ELSE Success("content")

\* The mutant has no catch: the rejection leaves callTool as an exception.
OnReject_Propagate(msg) == Thrown(msg)

\* client.ts:206-211: a rejection of client.callTool is caught and returned
OnReject(msg) == Failure(msg)

Done(res, was) == [pc |-> "done", sent |-> <<>>, via |-> 0, was |-> was, result |-> res]

(* ------------------------- transport callbacks ------------------------- *)
\* transport.onerror (client.ts:89-92), for any transport the object created:
\* the handler closes over the MCPClient, not over the transport.
TransportError(c, k) ==
  /\ c \in Created /\ k \in 1..Len(topen[c])
  /\ topen[c][k]
  /\ error' = [error EXCEPT ![c] = "transport error"]
  /\ status' = [status EXCEPT ![c] = "error"]
  /\ UNCHANGED <<clients, nObj, cfg, tools, connectedAt, transport, topen,
                 attempts, disc, call, left, skipped, op, run, others>>

\* Transport k of object c closes. Its onclose handler runs (client.ts:94-97):
\* status disconnected, capability list emptied. The SDK client then rejects what
\* is pending on the closed transport, in the same turn of the event loop: a
\* connect() of the object awaiting on k goes through its catch (client.ts:107-110,
\* status error over the handler's disconnected), a callTool awaiting on k through
\* its own (client.ts:206-211). The fields and the call once the turn is over:
AfterClose(c, k) ==
  LET pending == k <= Len(attempts[c]) /\ InFlight(attempts[c][k])
      calling == call.pc = "await" /\ call.sent[1] = c /\ call.via = k
  IN  [status   |-> IF pending THEN "error" ELSE "disconnected",
       error    |-> IF pending THEN "Connection closed" ELSE error[c],
       attempts |-> IF pending THEN [attempts[c] EXCEPT ![k] = Ended] ELSE attempts[c],
       call     |-> IF calling THEN Done(OnReject("Connection closed"), call.was)
                   ELSE call,
       op       |-> IF pending THEN ConnectSettled(c, k, "Connection closed") ELSE op]

\* The transport closes by itself.
TransportClose(c, k) ==
  /\ c \in Created /\ k \in 1..Len(topen[c])
  /\ topen[c][k]
  /\ topen' = [topen EXCEPT ![c][k] = FALSE]
  /\ LET n == AfterClose(c, k) IN
     /\ status' = [status EXCEPT ![c] = n.status]
     /\ error' = [error EXCEPT ![c] = n.error]
     /\ attempts' = [attempts EXCEPT ![c] = n.attempts]
     /\ call' = n.call
     /\ op' = n.op
  /\ tools' = [tools EXCEPT ![c] = <<>>]
  /\ UNCHANGED <<clients, nObj, cfg, connectedAt, transport, disc, left, skipped, run, others>>

(* ------------------------- MCPClient.disconnect ------------------------ *)
RECURSIVE SumTo(_, _)
SumTo(f, n) == IF n = 0 THEN 0 ELSE f[n] + SumTo(f, n - 1)
\* disconnect() executions of the object in flight
Disconnecting(c) == disc[c].close + SumTo(disc[c].tclose, MaxAttempts)

\* client.ts:118  if (status === "disconnected") return
DisconnectIsNoop(st) == st = "disconnected"

\* disconnect() up to its first await (client.ts:118-123): client.close() started
DisconnectStart(c) ==
  IF DisconnectIsNoop(status[c])
  THEN UNCHANGED connVars
  ELSE /\ left > 0
       /\ left' = left - 1
       /\ disc' = [disc EXCEPT ![c].close = @ + 1]
       /\ UNCHANGED <<status, error, tools, connectedAt, transport, topen, attempts,
                      skipped>>

\* The transport the SDK client holds: the one of the latest client.connect(),
\* while it is open (0: none).
SdkTransport(c) ==
  IF Len(topen[c]) > 0 /\ topen[c][Len(topen[c])] THEN Len(topen[c]) ELSE 0

\* await client.close() settles, its failure ignored (client.ts:122-126). A close
\* that succeeded has closed the transport the SDK client held. Then either
\* transport.close() is started (128-130) or, there being no transport,
\* disconnect() ends with its last statements (137-139).
CloseSettle(c) ==
  /\ c \in Created
  /\ disc[c].close > 0
  /\ \E ok \in BOOLEAN, mine \in BOOLEAN :
       LET k == SdkTransport(c)
           closes == ok /\ k # 0
           n == IF closes THEN AfterClose(c, k)
                ELSE [status |-> status[c], error |-> error[c],
                      attempts |-> attempts[c], call |-> call, op |-> op]
       IN  /\ IF mine THEN OpAwaits("close", c, 0)
                      ELSE disc[c].close > (IF OpAwaits("close", c, 0) THEN 1 ELSE 0)
           /\ topen' = IF closes THEN [topen EXCEPT ![c][k] = FALSE] ELSE topen
           /\ error' = [error EXCEPT ![c] = n.error]
           /\ attempts' = [attempts EXCEPT ![c] = n.attempts]
           /\ call' = n.call
           /\ IF transport[c] # 0
              THEN /\ status' = [status EXCEPT ![c] = n.status]
                   /\ tools' = IF closes THEN [tools EXCEPT ![c] = <<>>] ELSE tools
                   /\ disc' = [disc EXCEPT ![c].close = @ - 1,
                                           ![c].tclose[transport[c]] = @ + 1]
                   /\ op' = IF mine THEN [op EXCEPT !.pc = "tclose", !.k = transport[c]]
                            ELSE n.op
                   /\ UNCHANGED <<transport, connectedAt>>
              ELSE /\ status' = [status EXCEPT ![c] = "disconnected"]
                   /\ tools' = [tools EXCEPT ![c] = <<>>]
                   /\ connectedAt' = [connectedAt EXCEPT ![c] = 0]
                   /\ disc' = [disc EXCEPT ![c].close = @ - 1]
                   /\ op' = IF mine THEN Resumed(op, "") ELSE n.op
                   /\ UNCHANGED transport
  /\ UNCHANGED <<clients, nObj, cfg, left, skipped, run, others>>

\* await this.transport.close() settles for transport k, its failure ignored
\* (client.ts:129-133); then the handle is dropped and the state cleared (134-139).
TransportCloseSettle(c, k) ==
  /\ c \in Created /\ k \in 1..MaxAttempts
  /\ disc[c].tclose[k] > 0
  /\ \E ok \in BOOLEAN, mine \in BOOLEAN :
       LET closes == ok /\ topen[c][k]
           n == IF closes THEN AfterClose(c, k)
                ELSE [status |-> status[c], error |-> error[c],
                      attempts |-> attempts[c], call |-> call, op |-> op]
       IN  /\ IF mine THEN OpAwaits("tclose", c, k)
                      ELSE disc[c].tclose[k] > (IF OpAwaits("tclose", c, k) THEN 1 ELSE 0)
           /\ topen' = IF closes THEN [topen EXCEPT ![c][k] = FALSE] ELSE topen
           /\ error' = [error EXCEPT ![c] = n.error]
           /\ attempts' = [attempts EXCEPT ![c] = n.attempts]
           /\ call' = n.call
           /\ op' = IF mine THEN Resumed(op, "") ELSE n.op
  /\ disc' = [disc EXCEPT ![c].tclose[k] = @ - 1]
  /\ transport' = [transport EXCEPT ![c] = 0]
  /\ status' = [status EXCEPT ![c] = "disconnected"]
  /\ tools' = [tools EXCEPT ![c] = <<>>]
  /\ connectedAt' = [connectedAt EXCEPT ![c] = 0]
  /\ UNCHANGED <<clients, nObj, cfg, left, skipped, run, others>>

(* ------------------------------ MCPManager ----------------------------- *)
\* manager.ts:20-31 addServer(config, autoConnect)
\* manager.ts:25-30: a new MCPClient registered under its id, and connectServer
\* called on it up to its first await when autoConnect and the config is enabled
AddServerFresh(config, autoConnect) ==
  /\ nObj < MaxClients
  /\ LET c == nObj + 1 IN
     /\ nObj' = c
     /\ cfg' = [cfg EXCEPT ![c] = config]
     /\ clients' = Append(clients, c)
     /\ IF autoConnect /\ config.enabled
        THEN ConnectStart(c)
        ELSE UNCHANGED connVars

AddServer(config, autoConnect) ==
  /\ IF Lookup(config.id) # 0
     THEN UNCHANGED <<clients, nObj, cfg, connVars>>
     ELSE AddServerFresh(config, autoConnect)
  /\ UNCHANGED <<call, op, run, others>>

\* manager.ts:50-57 connectServer(serverId)
ConnectServer(id) ==
  /\ IF Lookup(id) = 0
     THEN UNCHANGED connVars
     ELSE ConnectStart(Lookup(id))
  /\ UNCHANGED <<clients, nObj, cfg, call, op, run, others>>

\* manager.ts:62-69 disconnectServer(serverId)
DisconnectServer(id) ==
  /\ IF Lookup(id) = 0
     THEN UNCHANGED connVars
     ELSE DisconnectStart(Lookup(id))
  /\ UNCHANGED <<clients, nObj, cfg, call, op, run, others>>

(* ------------------------------ tool calls ----------------------------- *)
\* MCPClient.callTool up to its await (client.ts:171-183): the status guard, then
\* the request handed to the SDK client, which sends it on the transport it holds
\* and rejects it when it holds none.
ClientCall(c, name, args) ==
  IF CallToolRejects(status[c])
  THEN Done(Failure("Not connected to MCP server"), status[c])
  ELSE IF SdkTransport(c) = 0
  THEN Done(OnReject("Not connected"), status[c])
  ELSE [pc |-> "await", sent |-> <<c, name, args>>, via |-> SdkTransport(c),
        was |-> status[c], result |-> NoResult]

\* converter.ts:96-97: a catalog entry's execute calls callTool on its client
ClientCallTool(c, name, args) ==
  /\ call.pc = "idle"
  /\ c \in Created
  /\ call' = ClientCall(c, name, args)
  /\ UNCHANGED <<clients, nObj, cfg, connVars, op, run, others>>

\* manager.ts:199-211: server id and tool name cut out of the tool id, or the
\* reason why the id is refused
ParseToolId(toolId) ==
  IF ~StartsWith(toolId, Prefix)
  THEN [ok |-> FALSE, why |-> "Invalid MCP tool ID", serverId |-> <<>>, toolName |-> <<>>]
  ELSE LET rest == SliceFrom(toolId, Len(Prefix))
           firstUnderscore == IndexOf(rest, "_")
       IN  IF firstUnderscore = -1
           THEN [ok |-> FALSE, why |-> "Invalid MCP tool ID format",
                 serverId |-> <<>>, toolName |-> <<>>]
           ELSE [ok |-> TRUE, why |-> "",
                 serverId |-> Slice(rest, 0, firstUnderscore),
                 toolName |-> SliceFrom(rest, firstUnderscore + 1)]

\* manager.ts:194-223 callTool(toolId, args)
ManagerCallTool(toolId, args) ==
  /\ call.pc = "idle"
  /\ LET p == ParseToolId(toolId) IN
     IF ~p.ok
     THEN call' = Done(Failure(p.why), "none")
     ELSE LET c == Lookup(p.serverId) IN
          IF c = 0
          THEN call' = Done(Failure("Server not found"), "none")
          ELSE IF DispatchRejects(status[c])
          THEN call' = Done(Failure("Server is not connected"), status[c])
          ELSE call' = ClientCall(c, p.toolName, args)
  /\ UNCHANGED <<clients, nObj, cfg, connVars, op, run, others>>

\* await client.callTool(...) resolves (client.ts:180-205): the answer is mapped
CallResolves ==
  /\ call.pc = "await"
  /\ topen[call.sent[1]][call.via]
  /\ \E r \in Responses : call' = Done(MapResponse(r), call.was)
  /\ UNCHANGED <<clients, nObj, cfg, connVars, op, run, others>>

\* await client.callTool(...) rejects (client.ts:206-211); the SDK's and the
\* transports' errors carry a message
CallRejects ==
  /\ call.pc = "await"
  /\ call' = Done(OnReject("rejected"), call.was)
  /\ UNCHANGED <<clients, nObj, cfg, connVars, op, run, others>>

\* The caller takes the result; the next call may be made.
CallReturn ==
  /\ call.pc = "done"
  /\ call' = IdleCall
  /\ UNCHANGED <<clients, nObj, cfg, connVars, op, run, others>>

(* ------------------------------- catalog ------------------------------- *)
EmptyMap == [x \in {} |-> 0]
\* Map.prototype.set
MapSet(m, k, v) == [x \in DOMAIN m \cup {k} |-> IF x = k THEN v ELSE m[x]]

\* converter.ts:144-156 convertMCPTools, the entries set into map m one by one;
\* an entry is the tool's closure: its client and the tool's own name
RECURSIVE convertInto(_, _, _)
convertInto(m, c, i) ==
  IF i > Len(tools[c]) THEN m
  ELSE convertInto(MapSet(m, getMCPToolId(cfg[c].id, tools[c][i]), <<c, tools[c][i]>>),
                   c, i + 1)

\* The mutant skips only the disconnected servers.
InCatalog_NotDisconnected(st) == st # "disconnected"

\* manager.ts:140  if (client.status !== "connected") continue
InCatalog(st) == st = "connected"

\* manager.ts:136-151 getAllTools
RECURSIVE getAllToolsFrom(_, _)
getAllToolsFrom(m, i) ==
  IF i > Len(clients) THEN m
  ELSE IF ~InCatalog(status[clients[i]]) THEN getAllToolsFrom(m, i + 1)
  ELSE getAllToolsFrom(convertInto(m, clients[i], 1), i + 1)

getAllTools == getAllToolsFrom(EmptyMap, 1)

(* ----------------------- MCPManager: awaited operations ---------------- *)
\* the operation returns, or throws to its caller
Returned(o, v) ==
  [o EXCEPT !.pc = "done", !.out = "return", !.ret = v, !.obj = 0, !.k = 0, !.err = ""]
Threw(o, err) ==
  [o EXCEPT !.pc = "done", !.out = "throw", !.err = err, !.obj = 0, !.k = 0]

\* await client.connect() on object c, by operation o: connect() up to its first
\* await; one that returns at its guard has resolved already
AwaitConnect(o, c) ==
  IF ConnectIsNoop(status[c])
  THEN op' = Resumed([o EXCEPT !.obj = c, !.k = 0], "") /\ UNCHANGED connVars
  ELSE /\ ConnectStart(c)
       /\ op' = [o EXCEPT !.pc = "connect", !.obj = c, !.k = Len(attempts[c]) + 1]

\* await client.disconnect() on object c, by operation o
AwaitDisconnect(o, c) ==
  /\ DisconnectStart(c)
  /\ op' = IF DisconnectIsNoop(status[c]) THEN Resumed([o EXCEPT !.obj = c, !.k = 0], "")
           ELSE [o EXCEPT !.pc = "close", !.obj = c, !.k = 0]

\* manager.ts:77-80: the Map's iterator from position i on, the entries whose
\* config is not enabled passed over; the position of the next one, or 0
NextEnabled(i) ==
  IF \E j \in i..Len(clients) : cfg[clients[j]].enabled
  THEN CHOOSE j \in i..Len(clients) :
         cfg[clients[j]].enabled /\ \A h \in i..(j - 1) : ~cfg[clients[h]].enabled
  ELSE 0

\* connectAll's loop from Map position o.i on, up to its next await
\* (manager.ts:77-83), or to its return (90)
ConnectAllLoop(o) ==
  LET j == NextEnabled(o.i) IN
  IF j = 0
  THEN op' = Returned(o, "results") /\ UNCHANGED connVars
  ELSE AwaitConnect([o EXCEPT !.i = j], clients[j])

\* manager.ts:74-76 connectAll() is called
ConnectAll ==
  /\ op.pc = "idle"
  /\ ConnectAllLoop([IdleOp EXCEPT !.kind = "connectAll", !.i = 1, !.n = Len(clients),
                                   !.results = EmptyMap])
  /\ UNCHANGED <<clients, nObj, cfg, call, run, others>>

\* manager.ts:84  results.set(serverId, null)
ConnectAllTry(o) == [o EXCEPT !.results = MapSet(@, cfg[o.obj].id, ""), !.i = @ + 1]

\* The mutant has no catch: the server's error leaves connectAll.
ConnectAllCatch_Rethrow(o) == Threw(o, o.err)

\* manager.ts:85-87  catch (error) { results.set(serverId, error) }
ConnectAllCatch(o) == [o EXCEPT !.results = MapSet(@, cfg[o.obj].id, o.err), !.i = @ + 1]

\* the awaited connect() has settled: its outcome recorded, the loop goes on
ConnectAllResume ==
  /\ op.kind = "connectAll" /\ op.pc = "resume"
  /\ LET o == IF op.err = "" THEN ConnectAllTry(op) ELSE ConnectAllCatch(op) IN
     IF o.pc = "done" THEN op' = o /\ UNCHANGED connVars ELSE ConnectAllLoop(o)
  /\ UNCHANGED <<clients, nObj, cfg, call, run, others>>

\* The mutant never finds the id registered.
Has_Never(serverId) == FALSE

\* manager.ts:21  this.clients.has(config.id)
Has(serverId) == Lookup(serverId) # 0

\* addServer(config, autoConnect) called by operation o, up to its first await
\* (manager.ts:20-29): it throws for an id that is registered, else registers a
\* new client and either awaits connectServer or returns.
AddServerBy(o, config, autoConnect) ==
  IF Has(config.id)
  THEN /\ op' = Resumed(o, "Server already exists")
       /\ UNCHANGED <<clients, nObj, cfg, connVars>>
  ELSE /\ AddServerFresh(config, autoConnect)
       /\ op' = IF autoConnect /\ config.enabled
                THEN [o EXCEPT !.pc = "connect", !.obj = nObj + 1, !.k = 1]
                ELSE Resumed(o, "")

\* manager.ts:20 addServer(config, autoConnect) is called
AddServerCall(config, autoConnect) ==
  /\ op.pc = "idle"
  /\ AddServerBy([IdleOp EXCEPT !.kind = "addServer", !.config = config,
                                !.auto = autoConnect], config, autoConnect)
  /\ UNCHANGED <<call, run, others>>

\* addServer ends: it returns (manager.ts:31), or throws its own error (22) or
\* the one connectServer rethrew (29, 56)
AddServerEnd ==
  /\ op.kind = "addServer" /\ op.pc = "resume"
  /\ op' = IF op.err = "" THEN Returned(op, "") ELSE Threw(op, op.err)
  /\ UNCHANGED <<clients, nObj, cfg, connVars, call, run, others>>

\* Map.delete(serverId) on MCPManager.clients
Delete(serverId) == SelectSeq(clients, LAMBDA c : cfg[c].id # serverId)

\* manager.ts:36-42 removeServer(serverId) is called
RemoveServerCall(id) ==
  /\ op.pc = "idle"
  /\ LET o == [IdleOp EXCEPT !.kind = "removeServer", !.id = id, !.old = Lookup(id)] IN
     IF Lookup(id) = 0
     THEN op' = Returned(o, "false") /\ UNCHANGED connVars
     ELSE AwaitDisconnect(o, Lookup(id))
  /\ UNCHANGED <<clients, nObj, cfg, call, run, others>>

\* manager.ts:43-44: disconnect() has returned, the entry is deleted
RemoveServerEnd ==
  /\ op.kind = "removeServer" /\ op.pc = "resume"
  /\ clients' = Delete(op.id)
  /\ op' = Returned(op, "true")
  /\ UNCHANGED <<nObj, cfg, connVars, call, run, others>>

\* manager.ts:272-279 updateServer(serverId, config) is called
UpdateServerCall(id, config) ==
  /\ op.pc = "idle"
  /\ LET c == Lookup(id)
         o == [IdleOp EXCEPT !.kind = "updateServer", !.id = id, !.config = config,
                             !.old = c] IN
     IF c = 0
     THEN op' = Threw(o, "Server not found") /\ UNCHANGED connVars
     ELSE AwaitDisconnect([o EXCEPT !.was = (status[c] = "connected")], c)
  /\ UNCHANGED <<clients, nObj, cfg, call, run, others>>

\* manager.ts:280-282: disconnect() has returned; the entry is deleted and
\* addServer(config, wasConnected) runs on what is left, up to its first await
\* (manager.ts:21-29)
UpdateServerReadd ==
  /\ op.kind = "updateServer" /\ op.pc = "resume" /\ op.i = 0
  /\ LET rest == Delete(op.id)
         o == [op EXCEPT !.i = 1] IN
     IF \E j \in 1..Len(rest) : cfg[rest[j]].id = op.config.id
     THEN /\ clients' = rest
          /\ op' = Resumed(o, "Server already exists")
          /\ UNCHANGED <<nObj, cfg, connVars>>
     ELSE /\ nObj < MaxClients
          /\ LET c == nObj + 1 IN
             /\ nObj' = c
             /\ cfg' = [cfg EXCEPT ![c] = op.config]
             /\ clients' = Append(rest, c)
             /\ IF op.was /\ op.config.enabled
                THEN /\ ConnectStart(c)
                     /\ op' = [o EXCEPT !.pc = "connect", !.obj = c, !.k = 1]
                ELSE /\ op' = Resumed(o, "")
                     /\ UNCHANGED connVars
  /\ UNCHANGED <<call, run, others>>

\* manager.ts:282-283: addServer has returned or thrown, and so does updateServer
UpdateServerEnd ==
  /\ op.kind = "updateServer" /\ op.pc = "resume" /\ op.i = 1
  /\ op' = IF op.err = "" THEN Returned(op, "") ELSE Threw(op, op.err)
  /\ UNCHANGED <<clients, nObj, cfg, connVars, call, run, others>>

\* disconnectAll's loop from Map position o.i on, up to its next await
\* (manager.ts:97-98), or to its return (100)
DisconnectAllLoop(o) ==
  IF o.i > Len(clients)
  THEN op' = Returned(o, "") /\ UNCHANGED connVars
  ELSE AwaitDisconnect(o, clients[o.i])

\* manager.ts:96 disconnectAll() is called
DisconnectAll ==
  /\ op.pc = "idle"
  /\ DisconnectAllLoop([IdleOp EXCEPT !.kind = "disconnectAll", !.i = 1,
                                      !.n = Len(clients)])
  /\ UNCHANGED <<clients, nObj, cfg, call, run, others>>

\* the awaited disconnect() has returned: the loop goes on
DisconnectAllResume ==
  /\ op.kind = "disconnectAll" /\ op.pc = "resume"
  /\ DisconnectAllLoop([op EXCEPT !.i = @ + 1])
  /\ UNCHANGED <<clients, nObj, cfg, call, run, others>>

\* loadServers' loop over the configs still to add (manager.ts:264-265), up to
\* the next await inside addServer, or to its return (267)
LoadServersLoop(o) ==
  IF o.todo = <<>>
  THEN op' = Returned(o, "") /\ UNCHANGED <<clients, nObj, cfg, connVars>>
  ELSE AddServerBy([o EXCEPT !.todo = Tail(@)], Head(o.todo), o.auto)

\* manager.ts:263 loadServers(configs, autoConnect) is called
LoadServers(configs, autoConnect) ==
  /\ op.pc = "idle"
  /\ LoadServersLoop([IdleOp EXCEPT !.kind = "loadServers", !.configs = configs,
                                    !.todo = configs, !.auto = autoConnect])
  /\ UNCHANGED <<call, run, others>>

\* manager.ts:265: the awaited addServer has returned, and the loop goes on, or
\* it has thrown, and the error leaves loadServers: nothing catches it
LoadServersResume ==
  /\ op.kind = "loadServers" /\ op.pc = "resume"
  /\ IF op.err # ""
     THEN op' = Threw(op, op.err) /\ UNCHANGED <<clients, nObj, cfg, connVars>>
     ELSE LoadServersLoop(op)
  /\ UNCHANGED <<call, run, others>>

(* --------------------------- AgentExecutor.stream ---------------------- *)
\* What a step of the model can come to: the model's answer and the tools' runs
\* complete; the model call fails; a tool's dispatch fails with an exception; a
\* tool never resolves.
Fates == {"ok", "modelFails", "toolFails", "hangs"}

\* A step of the SDK's loop: whether the model produces text, how many tools
\* it calls, and what the step comes to.
Steps == [text : BOOLEAN, calls : 0..MaxCalls, fate : Fates]

\* The SDK's loop (executor.ts:248-260, maxSteps): a further step follows a step
\* that called tools and completed, up to maxSteps steps; only the last step
\* fails or hangs, and tools fail or hang only where tools are called.
Scripts ==
  {sc \in UNION {[1..n -> Steps] : n \in 1..MaxSteps} :
     /\ \A i \in 1..(Len(sc) - 1) : sc[i].calls > 0 /\ sc[i].fate = "ok"
     /\ sc[Len(sc)].fate \in {"toolFails", "hangs"} => sc[Len(sc)].calls > 0
     /\ (sc[Len(sc)].calls > 0 /\ sc[Len(sc)].fate = "ok") => Len(sc) = MaxSteps}

\* What the final result lists as toolCalls and toolResults: those of the last
\* step, or those of all steps (the SDK's version is not fixed by the sources).
Modes == {"last", "all"}

\* the events (executor.ts:33-39); id: the message's, or step and number of a call
MessageId == <<0, 0>>
MessageStart == [type |-> "message_start", id |-> MessageId]
TextDelta(s) == [type |-> "text_delta", id |-> <<s, 0>>]
ToolCallStart(s, j) == [type |-> "tool_call_start", id |-> <<s, j>>]
ToolCallEnd(s, j) == [type |-> "tool_call_end", id |-> <<s, j>>]
\* executor.ts:295-299 message_end carries finalResult.finishReason ?? "stop"
MessageEnd(finishReason) ==
  [type |-> "message_end", id |-> MessageId, finishReason |-> finishReason]
ErrorEvent == [type |-> "error", id |-> MessageId]

\* executor.ts:241-242 stream(messages) is called: await this.initialize()
StreamCall(script, mode) ==
  /\ run.pc = "idle"
  /\ run' = [IdleRun EXCEPT !.pc = "init", !.script = script, !.mode = mode]
  /\ UNCHANGED <<clients, nObj, cfg, connVars, call, op, others>>

\* executor.ts:244-263: message_start is yielded, streamText is called and the
\* loop over result.textStream entered
StreamStart ==
  /\ run.pc = "init"
  /\ run' = [run EXCEPT !.pc = "model", !.s = 1, !.events = <<MessageStart>>]
  /\ UNCHANGED <<clients, nObj, cfg, connVars, call, op, others>>

\* executor.ts:263-265: textStream delivers the text of the step, yielded as a
\* text_delta
StreamText ==
  /\ run.pc = "model"
  /\ run.script[run.s].text /\ ~run.said
  /\ run' = [run EXCEPT !.said = TRUE, !.events = Append(@, TextDelta(run.s))]
  /\ UNCHANGED <<clients, nObj, cfg, connVars, call, op, others>>

\* the model's part of the step is over, its text delivered
Answered == run.pc = "model" /\ (run.script[run.s].text => run.said)

\* inside the SDK: the model's answer is complete; the tools it called are
\* dispatched, or, none being called, textStream ends
StreamModelDone ==
  /\ Answered
  /\ run.script[run.s].fate # "modelFails"
  /\ run' = [run EXCEPT !.pc = IF run.script[run.s].calls > 0 THEN "tools" ELSE "final"]
  /\ UNCHANGED <<clients, nObj, cfg, connVars, call, op, others>>

\* inside the SDK: the tools of the step have resolved; the next step begins,
\* or, at the last one, textStream ends
StreamToolsDone ==
  /\ run.pc = "tools"
  /\ run.script[run.s].fate = "ok"
  /\ run' = IF run.s < Len(run.script)
            THEN [run EXCEPT !.pc = "model", !.s = @ + 1, !.said = FALSE]
            ELSE [run EXCEPT !.pc = "final"]
  /\ UNCHANGED <<clients, nObj, cfg, connVars, call, op, others>>

\* The mutant lets the failure go: nothing is yielded for it.
Caught_Silent(events) == events

\* executor.ts:300-305  catch (error) { yield { type: "error", ... } }
Caught(events) == Append(events, ErrorEvent)

\* the model call or a tool's dispatch fails: the await inside the try throws
\* (executor.ts:263, 268), the catch yields the error and the generator returns
StreamFails ==
  /\ \/ Answered /\ run.script[run.s].fate = "modelFails"
     \/ run.pc = "tools" /\ run.script[run.s].fate = "toolFails"
  /\ run' = [run EXCEPT !.pc = "done", !.events = Caught(@)]
  /\ UNCHANGED <<clients, nObj, cfg, connVars, call, op, others>>

\* the calls the final result lists, as <<step, number>>, in order
RECURSIVE CallsFrom(_, _)
CallsFrom(sc, i) ==
  IF i > Len(sc) THEN <<>>
  ELSE [j \in 1..sc[i].calls |-> <<i, j>>] \o CallsFrom(sc, i + 1)

FinalCalls(r) ==
  CallsFrom(r.script, IF r.mode = "last" THEN Len(r.script) ELSE 1)

\* The mutant ends the message under an id of its own.
Finished_OtherId(events, finishReason) ==
  Append(events, [MessageEnd(finishReason) EXCEPT !.id = <<1, 0>>])

\* executor.ts:295-299  yield { type: "message_end", id: messageId, ... }
Finished(events, finishReason) == Append(events, MessageEnd(finishReason))

\* executor.ts:298 finalResult.finishReason: one of the reasons the SDK's type
\* FinishReason lists, or undefined
FinishReasons ==
  {"stop", "length", "content-filter", "tool-calls", "error", "other", "unknown",
   "undefined"}

\* executor.ts:298 finishReason ?? "stop"
OrStop(finishReason) == IF finishReason = "undefined" THEN "stop" ELSE finishReason

\* executor.ts:268-299: the result is there; a tool_call_start for each of its
\* toolCalls, then a tool_call_end for each of its toolResults, then message_end
StreamFinish ==
  /\ run.pc = "final"
  /\ \E reported \in FinishReasons :
       LET cs == FinalCalls(run) IN
       run' = [run EXCEPT
                 !.pc = "done",
                 !.events = Finished(@ \o [j \in 1..Len(cs) |-> ToolCallStart(cs[j][1], cs[j][2])]
                                      \o [j \in 1..Len(cs) |-> ToolCallEnd(cs[j][1], cs[j][2])],
                                     OrStop(reported))]
  /\ UNCHANGED <<clients, nObj, cfg, connVars, call, op, others>>

(* ------------------------ SkillDiscoveryService ------------------------ *)
\* what the steps of the skills and of the executor's fields leave alone
poolVars == <<clients, nObj, cfg, connVars, call, op, run>>

\* the position of the first element of seq that satisfies Test, or 0
FirstPos(seq, Test(_)) ==
  IF \E i \in 1..Len(seq) : Test(seq[i])
  THEN Min({i \in 1..Len(seq) : Test(seq[i])})
  ELSE 0

\* discovery.ts cache: Map<path, Skill>, kept as its values in insertion order
\* (cache.set(filePath, skill) is called with skill.path = filePath)
CacheGet(cache, path) ==
  LET i == FirstPos(cache, LAMBDA k : k.path = path) IN
  IF i = 0 THEN NoSkill ELSE cache[i]

CacheSet(cache, skill) ==
  IF CacheGet(cache, skill.path) # NoSkill
  THEN [i \in 1..Len(cache) |-> IF cache[i].path = skill.path THEN skill ELSE cache[i]]
  ELSE Append(cache, skill)

\* parser.ts:27-40 parse(content, filePath): the frontmatter's id, the file's path
Parse(doc, path) == [id |-> doc.id, path |-> path, ver |-> doc.ver]

\* discovery.ts:94-96 loadSkill(filePath) is called: the cached skill is
\* returned, or readFile awaited
LoadSkillCall(n, path) ==
  /\ skills.loads[n].pc = "idle"
  /\ \A m \in 1..(n - 1) : skills.loads[m].pc # "idle"
  /\ LET cached == CacheGet(skills.cache, path)
         l == [IdleLoad EXCEPT !.path = path, !.ok = skills.since[path],
                               !.inv = skills.inv[path]] IN
     skills' = [skills EXCEPT !.loads[n] =
                  IF cached # NoSkill THEN [l EXCEPT !.pc = "done", !.ret = cached]
                  ELSE [l EXCEPT !.pc = "read"]]
  /\ UNCHANGED <<poolVars, agent, fn>>

\* the file system reads the file for readFile (discovery.ts:101)
ReadFile(n) ==
  /\ skills.loads[n].pc = "read"
  /\ skills' = [skills EXCEPT !.loads[n].pc = "got",
                              !.loads[n].got = skills.disk[skills.loads[n].path]]
  /\ UNCHANGED <<poolVars, agent, fn>>

\* discovery.ts:103  this.cache.set(filePath, skill)
Loaded(cache, skill) == CacheSet(cache, skill)

\* await readFile has settled (discovery.ts:101-108): the content is parsed,
\* cached and returned; a file that is not there or does not parse gives null
LoadSkillResume(n) ==
  /\ skills.loads[n].pc = "got"
  /\ LET l == skills.loads[n] IN
     skills' = IF l.got = NoDoc
               THEN [skills EXCEPT !.loads[n].pc = "done"]
               ELSE [skills EXCEPT !.loads[n].pc = "done",
                                   !.loads[n].ret = Parse(l.got, l.path),
                                   !.cache = Loaded(@, Parse(l.got, l.path))]
  /\ UNCHANGED <<poolVars, agent, fn>>

\* the document at a path is edited in the store: its next version
WriteFile(path) ==
  /\ skills.disk[path] # NoDoc
  /\ skills.disk[path].ver < MaxVer
  /\ LET doc == [skills.disk[path] EXCEPT !.ver = @ + 1] IN
     skills' = [skills EXCEPT
                  !.disk[path] = doc,
                  !.since[path] = @ \cup {doc},
                  !.loads = [n \in 1..MaxLoads |->
                               IF @[n].pc \in {"read", "got"} /\ @[n].path = path
                               THEN [@[n] EXCEPT !.ok = @ \cup {doc}]
                               ELSE @[n]]]
  /\ UNCHANGED <<poolVars, agent, fn>>

\* discovery.ts:167-169 invalidateSkill(filePath): cache.delete(filePath)
InvalidateSkill(path) ==
  /\ skills' = [skills EXCEPT
                  !.cache = SelectSeq(@, LAMBDA k : k.path # path),
                  !.since[path] = {skills.disk[path]},
                  !.inv[path] = TRUE]
  /\ UNCHANGED <<poolVars, agent, fn>>

\* discovery.ts:160-162 clearCache(): cache.clear()
ClearCache ==
  /\ skills' = [skills EXCEPT
                  !.cache = <<>>,
                  !.since = [p \in SkillPaths |-> {skills.disk[p]}],
                  !.inv = [p \in SkillPaths |-> TRUE]]
  /\ UNCHANGED <<poolVars, agent, fn>>

(* ----------------------------- SkillLoader ----------------------------- *)
\* loadSkill(filePath) from its call to its return (discovery.ts:94-109), the
\* store not changing meanwhile: what it returns, and the cache it leaves
LoadSkillNow(cache, disk, path) ==
  IF CacheGet(cache, path) # NoSkill
  THEN [ret |-> CacheGet(cache, path), cache |-> cache]
  ELSE IF disk[path] = NoDoc THEN [ret |-> NoSkill, cache |-> cache]
  ELSE [ret |-> Parse(disk[path], path), cache |-> Loaded(cache, Parse(disk[path], path))]

\* discovery.ts:64-89 discoverFromDirectory: loadSkill for each entry from the
\* i-th on, the skills that loaded in the directory's order
RECURSIVE DiscoverFrom(_, _, _)
DiscoverFrom(cache, disk, i) ==
  IF i > Len(Dir) THEN [skills |-> <<>>, cache |-> cache]
  ELSE LET r == LoadSkillNow(cache, disk, Dir[i])
           d == DiscoverFrom(r.cache, disk, i + 1) IN
       [skills |-> (IF r.ret = NoSkill THEN <<>> ELSE <<r.ret>>) \o d.skills,
        cache |-> d.cache]

\* Array.prototype.find by skill id, null when there is none
FindById(seq, id) ==
  LET i == FirstPos(seq, LAMBDA k : k.id = id) IN
  IF i = 0 THEN NoSkill ELSE seq[i]

\* discovery.ts:115-126 getById(id): the first cached skill with the id, else
\* the first discovered one (discoverAll, 43-59, keeps the first skill of each
\* id of the one directory: find gives the same skill with or without that)
GetById(cache, disk, id) ==
  IF FindById(cache, id) # NoSkill
  THEN [ret |-> FindById(cache, id), cache |-> cache]
  ELSE LET d == DiscoverFrom(cache, disk, 1) IN
       [ret |-> FindById(d.skills, id), cache |-> d.cache]

\* loader.ts:33-37: loadSkill(ref.path), and getById(ref.id) when that gave null
Resolve(cache, disk, ref) ==
  LET byPath == LoadSkillNow(cache, disk, ref.path) IN
  IF byPath.ret # NoSkill THEN byPath ELSE GetById(byPath.cache, disk, ref.id)

\* loader.ts:19-26 loadForAgent(skillRefs) is called by caller n: the enabled
\* references are kept, the loop entered
LoadForAgent(n, refs) ==
  /\ skills.loader[n].pc = "idle"
  /\ skills' = [skills EXCEPT !.loader[n] =
                  [IdleLoader EXCEPT !.pc = "loop", !.i = 1, !.disk0 = skills.disk,
                                     !.refs = SelectSeq(refs, LAMBDA r : r.enabled)]]

\* loader.ts:41  loadedIds.add(skill.id)
Recorded(loadedIds, skill) == loadedIds \cup {skill.id}

\* loader.ts:28-43 the loop's pass for one reference, its awaits taken together;
\* after the last reference the skills are returned (45)
LoaderStep(n) ==
  /\ skills.loader[n].pc = "loop"
  /\ LET l == skills.loader[n] IN
     IF l.i > Len(l.refs)
     THEN skills' = [skills EXCEPT !.loader[n].pc = "done"]
     ELSE LET ref == l.refs[l.i] IN
          IF ref.id \in l.loadedIds
          THEN skills' = [skills EXCEPT !.loader[n].i = @ + 1]
          ELSE LET r == Resolve(skills.cache, skills.disk, ref) IN
               skills' = [skills EXCEPT
                            !.cache = r.cache,
                            !.loader[n] =
                              IF r.ret = NoSkill THEN [l EXCEPT !.i = @ + 1]
                              ELSE [l EXCEPT !.i = @ + 1,
                                             !.out = Append(@, r.ret),
                                             !.loadedIds = Recorded(@, r.ret)]]

\* the caller has the result; the loader is called again later
LoaderReturn(n) ==
  /\ skills.loader[n].pc = "done"
  /\ skills' = [skills EXCEPT !.loader[n] = IdleLoader]

(* ----------------------- AgentExecutor.initialize ---------------------- *)
\* SystemPromptSchema: inline text, a file that can be read, a file that cannot
Inline == [type |-> "inline", content |-> <<"P">>, path |-> ""]
FromFile == [type |-> "file", content |-> <<>>, path |-> "prompt.md"]
FromMissing == [type |-> "file", content |-> <<>>, path |-> "missing.md"]
PromptSources == {Inline, FromFile, FromMissing}

\* readFile(path, "utf-8") of the prompt's file succeeds
Readable(path) == path = "prompt.md"

\* executor.ts:100-114 loadSystemPrompt: the inline content; the file's text;
\* the empty string when the file cannot be read (catch: console.error, "")
loadSystemPrompt(source) ==
  IF source.type = "inline" THEN source.content
  ELSE IF Readable(source.path) THEN <<"F">>
  ELSE <<>>

\* The mutant has no case for the empty list: the heading alone.
buildSkillContext_Heading(loaded) == <<"#">> \o [i \in 1..Len(loaded) |-> loaded[i].id]

\* loader.ts:52-69 buildSkillContext: the empty string for no skills, else a
\* heading, then each skill's text
buildSkillContext(loaded) ==
  IF Len(loaded) = 0 THEN <<>>
  ELSE <<"#">> \o [i \in 1..Len(loaded) |-> loaded[i].id]

\* the one reference to a skill a profile may carry
RefS == [id |-> "s", path |-> "p1", enabled |-> TRUE]
\* a reference that is switched off, and one to a skill that is nowhere
RefOff == [id |-> "s", path |-> "p1", enabled |-> FALSE]
RefU == [id |-> "u", path |-> Gone, enabled |-> TRUE]
\* the store the executor's skills are loaded from
AgentDisk ==
  [p \in SkillPaths |->
     IF p = "p1" THEN [id |-> "s", ver |-> 1]
     ELSE IF p = "p2" THEN [id |-> "t", ver |-> 1]
     ELSE NoDoc]

\* a built-in tool's id
BuiltinRead == <<"r", "e", "a", "d">>

\* MCPServerRef (providers.ts:214-217); enabledTools {}: absent or empty
McpRefs == [serverId : ServerIds, enabledTools : {{}, {NameBC}}]
McpRefLists ==
  {<<>>} \cup {<<r>> : r \in McpRefs}
    \cup {<<r, q>> : r \in {x \in McpRefs : x.serverId = IdA},
                     q \in {x \in McpRefs : x.serverId = IdAB}}

\* the profiles an executor is constructed with or updated to
Profiles ==
  [prompt : PromptSources, skills : {<<>>, <<RefS>>, <<RefOff>>, <<RefU>>},
   builtin : {{}, {BuiltinRead}}, mcp : {<<>>}]
    \cup [prompt : {Inline}, skills : {<<>>}, builtin : {{}}, mcp : McpRefLists]

\* executor.ts:120-126: this.tools[id] = toolDef.tool for each built-in id; an
\* entry is its client (0: built in) and the tool's own name
withBuiltin(t, ids) == [x \in DOMAIN t \cup ids |-> IF x \in ids THEN <<0, x>> ELSE t[x]]

\* manager.ts:156-172 getToolsFromServers(serverIds), from the i-th id on
RECURSIVE toolsFromServers(_, _, _)
toolsFromServers(m, serverIds, i) ==
  IF i > Len(serverIds) THEN m
  ELSE LET c == Lookup(serverIds[i]) IN
       IF c = 0 \/ ~InCatalog(status[c]) THEN toolsFromServers(m, serverIds, i + 1)
       ELSE toolsFromServers(convertInto(m, c, 1), serverIds, i + 1)

getToolsFromServers(serverIds) == toolsFromServers(EmptyMap, serverIds, 1)

\* executor.ts:178-198: the tool id starts with `mcp_${ref.serverId}_` and, when
\* enabledTools is not empty, what follows the prefix is one of enabledTools
Admits(ref, toolId, tool) ==
  LET prefix == Prefix \o ref.serverId \o <<"_">> IN
  /\ StartsWith(toolId, prefix)
  /\ ref.enabledTools = {} \/ SliceFrom(toolId, Len(prefix)) \in ref.enabledTools

\* executor.ts:172-199: the tools of the referenced servers that a reference
\* admits are set into this.tools
withMCPTools(t, refs) ==
  LET mcpTools == getToolsFromServers([i \in 1..Len(refs) |-> refs[i].serverId])
      admitted == {x \in DOMAIN mcpTools :
                     \E i \in 1..Len(refs) : Admits(refs[i], x, mcpTools[x])}
  IN [x \in DOMAIN t \cup admitted |-> IF x \in admitted THEN mcpTools[x] ELSE t[x]]

\* executor.ts:150-152: the first reference from the i-th on whose server is
\* not registered, or registered and not connected (155, 166); 0: none
NextToEnsure(refs, i) ==
  LET need == {j \in i..Len(refs) :
                 \/ ~Has(refs[j].serverId)
                 \/ status[Lookup(refs[j].serverId)] # "connected"}
  IN IF need = {} THEN 0 ELSE Min(need)

\* loadMCPTools' loop over the references from the i-th on (executor.ts:150-169),
\* by initialize() call n of the executor a, up to its next await; or, the loop
\* over, the tools set (172-199) and loadTools returned
EnsureLoop(a, n, i) ==
  LET refs == a.config.mcp
      j == NextToEnsure(refs, i) IN
  IF j = 0
  THEN /\ agent' = [a EXCEPT !.tools = withMCPTools(@, refs),
                             !.calls[n] = [IdleInit EXCEPT !.pc = "tooled"]]
       /\ UNCHANGED <<clients, nObj, cfg, connVars>>
  ELSE IF ~Has(refs[j].serverId)
  THEN /\ agent' = [a EXCEPT !.calls[n] = [IdleInit EXCEPT !.pc = "stored", !.i = j]]
       /\ UNCHANGED <<clients, nObj, cfg, connVars>>
  ELSE LET c == Lookup(refs[j].serverId) IN
       /\ ConnectStart(c)
       /\ agent' = [a EXCEPT !.calls[n] =
                      [pc |-> "connect", i |-> j, obj |-> c,
                       k |-> IF ConnectIsNoop(status[c]) THEN 0
                             ELSE Len(attempts[c]) + 1]]
       /\ UNCHANGED <<clients, nObj, cfg>>

\* executor.ts:66-70 initialize() is called: it returns when initialized, else
\* awaits loadSystemPrompt
InitializeCall(n) ==
  /\ agent.calls[n].pc = "idle"
  /\ \A m \in 1..(n - 1) : agent.calls[m].pc # "idle"
  /\ agent' = [agent EXCEPT !.calls[n].pc = IF agent.initialized THEN "done" ELSE "prompt"]
  /\ UNCHANGED <<poolVars, skills, fn>>

\* executor.ts:70-73, 84-89: the prompt is there and assigned; loadSkills is
\* called, which returns when the profile has no skills, else awaits loadForAgent
PromptLoaded(n) ==
  /\ agent.calls[n].pc = "prompt"
  /\ LET a == [agent EXCEPT !.systemPrompt = loadSystemPrompt(agent.config.prompt)] IN
     IF agent.config.skills = <<>>
     THEN agent' = [a EXCEPT !.calls[n].pc = "skilled"] /\ UNCHANGED skills
     ELSE /\ agent' = [a EXCEPT !.calls[n].pc = "skills"]
          /\ LoadForAgent(n, agent.config.skills)
  /\ UNCHANGED <<poolVars, fn>>

\* executor.ts:91-94  if (length > 0) this.systemPrompt += skillContext
WithSkills(prompt, loaded) ==
  IF loaded = <<>> THEN prompt ELSE prompt \o buildSkillContext(loaded)

\* executor.ts:89-94: loadForAgent has returned: loadedSkills assigned, the
\* context appended; loadSkills returns
SkillsLoaded(n) ==
  /\ agent.calls[n].pc = "skills"
  /\ skills.loader[n].pc = "done"
  /\ agent' = [agent EXCEPT !.loadedSkills = skills.loader[n].out,
                            !.systemPrompt = WithSkills(@, skills.loader[n].out),
                            !.calls[n].pc = "skilled"]
  /\ LoaderReturn(n)
  /\ UNCHANGED <<poolVars, fn>>

\* executor.ts:76, 119-130, 138-152: loadTools is called: the built-in tools are
\* set, loadMCPTools returns when the profile has no references, else enters its
\* loop
ToolsStart(n) ==
  /\ agent.calls[n].pc = "skilled"
  /\ LET a == [agent EXCEPT !.tools = withBuiltin(@, agent.config.builtin)] IN
     IF agent.config.mcp = <<>>
     THEN /\ agent' = [a EXCEPT !.calls[n].pc = "tooled"]
          /\ UNCHANGED <<clients, nObj, cfg, connVars>>
     ELSE EnsureLoop(a, n, 1)
  /\ UNCHANGED <<call, op, run, skills, fn>>

\* executor.ts:154-161: storage.getMCPServer has answered: an enabled
\* configuration is added, connecting; addServer's throw for an id registered
\* meanwhile is caught, and nothing is done when there is no configuration
StorageAnswers(n, found) ==
  /\ agent.calls[n].pc = "stored"
  /\ LET i == agent.calls[n].i
         id == agent.config.mcp[i].serverId IN
     IF found /\ ~Has(id)
     THEN /\ AddServerFresh([id |-> id, enabled |-> TRUE], TRUE)
          /\ agent' = [agent EXCEPT !.calls[n] =
                         [pc |-> "connect", i |-> i, obj |-> nObj + 1, k |-> 1]]
     ELSE EnsureLoop(agent, n, i + 1)
  /\ UNCHANGED <<call, op, run, skills, fn>>

\* executor.ts:157-160, 168-171: the awaited addServer or connectServer has
\* settled; its error is caught, the loop goes on
ConnectAwaited(n) ==
  /\ agent.calls[n].pc = "connect"
  /\ IF agent.calls[n].k = 0 THEN TRUE
     ELSE attempts[agent.calls[n].obj][agent.calls[n].k].pc = "ended"
  /\ EnsureLoop(agent, n, agent.calls[n].i + 1)
  /\ UNCHANGED <<call, op, run, skills, fn>>

\* executor.ts:76-78: loadTools has returned; initialized = true
InitializeEnd(n) ==
  /\ agent.calls[n].pc = "tooled"
  /\ agent' = [agent EXCEPT !.initialized = TRUE, !.calls[n].pc = "done"]
  /\ UNCHANGED <<poolVars, skills, fn>>

\* executor.ts:369-373 updateConfig(config), between runs: the configuration is
\* replaced, initialized and loadedSkills are reset
UpdateConfig(config) ==
  /\ ~agent.updated
  /\ \A n \in 1..MaxInits : agent.calls[n].pc \in {"idle", "done"}
  /\ agent' = [agent EXCEPT !.config = config, !.initialized = FALSE,
                            !.loadedSkills = <<>>,
                            !.calls = [n \in 1..MaxInits |-> IdleInit],
                            !.prev = agent.config, !.updated = TRUE]
  /\ UNCHANGED <<poolVars, skills, fn>>

(* ------------------ SkillDiscoveryService.matchTriggers ---------------- *)
\* the characters of inputs and triggers: the command marker, white space, a
\* letter in lower and in upper case
Chars == {"/", " ", "a", "A"}

\* String.prototype.toLowerCase, toUpperCase
toLowerCase(s) == [i \in 1..Len(s) |-> IF s[i] = "A" THEN "a" ELSE s[i]]
toUpperCase(s) == [i \in 1..Len(s) |-> IF s[i] = "a" THEN "A" ELSE s[i]]

\* String.prototype.trim: white space taken off the start, then off the end
RECURSIVE trimStart(_)
trimStart(s) == IF s # <<>> /\ s[1] = " " THEN trimStart(Tail(s)) ELSE s
RECURSIVE trimEnd(_)
trimEnd(s) ==
  IF s # <<>> /\ s[Len(s)] = " " THEN trimEnd(SubSeq(s, 1, Len(s) - 1)) ELSE s
trim(s) == trimEnd(trimStart(s))

\* String.prototype.includes
Includes(s, t) == \E i \in 0..(Len(s) - Len(t)) : SubSeq(s, i + 1, i + Len(t)) = t

\* The mutant lowers the input and leaves its white space.
LowerInput_Untrimmed(input) == toLowerCase(input)

\* discovery.ts:140  const lowerInput = input.toLowerCase().trim()
LowerInput(input) == trim(toLowerCase(input))

\* discovery.ts:144-153 the test of one trigger
TriggerMatches(lowerInput, trigger) ==
  LET lowerTrigger == toLowerCase(trigger) IN
  IF StartsWith(trigger, <<"/">>) THEN StartsWith(lowerInput, lowerTrigger)
  ELSE Includes(lowerInput, lowerTrigger)

\* discovery.ts:139-155 matchTriggers(input, skills): filter, some
matchTriggers(input, list) ==
  LET lowerInput == LowerInput(input) IN
  SelectSeq(list, LAMBDA skill :
    \E j \in 1..Len(skill.triggers) : TriggerMatches(lowerInput, skill.triggers[j]))

\* matchTriggers is applied to its arguments
MatchTriggers ==
  /\ fn.f = "matchTriggers" /\ fn.pc = "call"
  /\ fn' = [fn EXCEPT !.pc = "done", !.out = matchTriggers(fn.input, fn.skills)]
  /\ UNCHANGED <<poolVars, agent, skills>>

(* -------------------------- converter: schemas ------------------------- *)
\* A node of a JSON Schema as a server sends it: null; a value that is not an
\* object (a string, true); an object with its type ("none": no type, "other":
\* one the converter has no case for), items, properties and required, each one
\* there or Absent.
Absent == [kind |-> "absent"]
Null == [kind |-> "null"]
Scalar == [kind |-> "scalar"]
Obj(type, items, properties, required) ==
  [kind |-> "object", type |-> type, items |-> items, properties |-> properties,
   required |-> required]
Types == {"string", "number", "integer", "boolean", "array", "object", "none", "other"}

\* what the converter builds: zod schemas, or a TypeError thrown
ZUnknown == [z |-> "unknown"]
ZRecord == [z |-> "record"]
ZArray(of) == [z |-> "array", of |-> of]
ZOptional(of) == [z |-> "optional", of |-> of]
ZObject(shape) == [z |-> "object", shape |-> shape]
TypeError == [z |-> "TypeError"]

\* converter.ts:36-37  items ? jsonSchemaToZod(items) : z.unknown()
Truthy(node) == node.kind \in {"scalar", "object"}

\* converter.ts:10-67 jsonSchemaToZod(schema): schema.type of null throws, that
\* of a value that is not an object is undefined; an error thrown for a node
\* leaves the whole conversion
RECURSIVE jsonSchemaToZod(_)
jsonSchemaToZod(schema) ==
  IF schema.kind \in {"null", "absent"} THEN TypeError
  ELSE IF schema.kind = "scalar" THEN ZUnknown
  ELSE IF schema.type = "string" THEN [z |-> "string"]
  ELSE IF schema.type \in {"number", "integer"} THEN [z |-> "number"]
  ELSE IF schema.type = "boolean" THEN [z |-> "boolean"]
  ELSE IF schema.type = "array"
  THEN IF ~Truthy(schema.items) THEN ZArray(ZUnknown)
       ELSE LET itemSchema == jsonSchemaToZod(schema.items) IN
            IF itemSchema = TypeError THEN TypeError ELSE ZArray(itemSchema)
  ELSE IF schema.type = "object"
  THEN IF schema.properties = Absent THEN ZRecord
       ELSE LET required == IF schema.required = Absent THEN {} ELSE schema.required.of
                keys == DOMAIN schema.properties
                prop == [key \in keys |-> jsonSchemaToZod(schema.properties[key])]
            IN IF \E key \in keys : prop[key] = TypeError THEN TypeError
               ELSE ZObject([key \in keys |->
                               IF key \in required THEN prop[key]
                               ELSE ZOptional(prop[key])])
  ELSE ZUnknown

\* converter.ts:72-82 mcpSchemaToZod(inputSchema): the object schema, or an
\* empty object schema for anything else
mcpSchemaToZod(inputSchema) ==
  LET zodSchema == jsonSchemaToZod(inputSchema) IN
  IF zodSchema = TypeError THEN TypeError
  ELSE IF zodSchema.z = "object" THEN zodSchema
  ELSE ZObject([key \in {} |-> ZUnknown])

\* the schema adapter is applied to a tool's inputSchema (converter.ts:92)
McpSchemaToZod ==
  /\ fn.f = "mcpSchemaToZod" /\ fn.pc = "call"
  /\ fn' = [fn EXCEPT !.pc = "done", !.out = mcpSchemaToZod(fn.schema)]
  /\ UNCHANGED <<poolVars, agent, skills>>

\* The arguments of a tool call: a string, a number, or a bag (an object) with
\* a value at each of its keys.
Str == [v |-> "string"]
Num == [v |-> "number"]
Bag(at) == [v |-> "object", at |-> at]

\* zod's parse of a value by a schema: the value it hands on, or Rejected. An
\* object schema (z.object, unknownKeys "strip") keeps the keys of its shape
\* and drops every other key; a record of unknown and unknown keep the value;
\* no value of the model is an array.
Rejected == [v |-> "rejected"]
RECURSIVE parse(_, _)
parse(schema, value) ==
  IF schema.z \in {"unknown", "optional"}
  THEN IF schema.z = "unknown" THEN value ELSE parse(schema.of, value)
  ELSE IF schema.z \in {"string", "number", "boolean"}
  THEN IF value.v = schema.z THEN value ELSE Rejected
  ELSE IF schema.z = "record"
  THEN IF value.v = "object" THEN value ELSE Rejected
  ELSE IF schema.z = "object"
  THEN IF value.v # "object" THEN Rejected
       ELSE LET keys == DOMAIN schema.shape
                given == keys \cap DOMAIN value.at
                field == [key \in given |-> parse(schema.shape[key], value.at[key])]
            IN IF \/ \E key \in given : field[key] = Rejected
                  \/ \E key \in keys \ given :
                       schema.shape[key].z \notin {"optional", "unknown"}
               THEN Rejected
               ELSE Bag(field)
  ELSE Rejected

\* converter.ts:91-97 the tool built from the descriptor is called with
\* arguments: they are parsed by the descriptor (parameters), and execute hands
\* what the parse gives to client.callTool
CoreToolCall ==
  /\ fn.f = "mcpSchemaToZod" /\ fn.pc = "done" /\ fn.out # TypeError
  /\ fn' = [fn EXCEPT !.pc = "called", !.passed = parse(fn.out, fn.args)]
  /\ UNCHANGED <<poolVars, agent, skills>>

(* --------------------- MCPClient.callTool: the answer ------------------ *)
\* The answer of the SDK's client.callTool: toolResult there or not, content a
\* list of blocks, another value or not there, isError true, false or not there.
NotThere == [is |-> "undefined"]
OtherContent == [is |-> "value"]
Block(type, text) == [type |-> type, text |-> text]
Blocks == {Block(type, text) : type \in {"text", "image"}, text \in {<<>>, <<"o">>}}
BlockLists == UNION {[1..n -> Blocks] : n \in 0..MaxBlocks}
Answers ==
  [toolResult : BOOLEAN, content : {NotThere, OtherContent} \cup {[is |-> "array", of |-> l] : l \in BlockLists},
   isError : {"true", "false", "undefined"}]

\* Array.prototype.join("\n") of the texts
RECURSIVE JoinLines(_)
JoinLines(texts) ==
  IF texts = <<>> THEN <<>>
  ELSE IF Len(texts) = 1 THEN texts[1]
  ELSE texts[1] \o <<"\n">> \o JoinLines(Tail(texts))

\* client.ts:193-196  content.filter(type === "text").map(text).join("\n")
TextContent(list) ==
  LET texts == SelectSeq(list, LAMBDA c : c.type = "text") IN
  JoinLines([i \in 1..Len(texts) |-> texts[i].text])

\* what callTool and execute return: {success: true, result} or
\* {success: false, error}; a result is a text or another value
Ok(result) == [success |-> TRUE, result |-> result]
Err(msg) == [success |-> FALSE, error |-> msg]
Text(t) == [is |-> "text", text |-> t]
ToolResultValue == [is |-> "toolResult"]
ExecutionFailed == <<"f">>

\* client.ts:185-205 the answer mapped by MCPClient.callTool
MapAnswer(result) ==
  IF result.toolResult THEN Ok(ToolResultValue)
  ELSE IF result.content.is = "array"
  THEN LET textContent == TextContent(result.content.of) IN
       IF result.isError = "true"
       THEN Err(IF textContent # <<>> THEN textContent ELSE ExecutionFailed)
       ELSE Ok(Text(textContent))
  ELSE Ok(result.content)

\* converter.ts:96-110 execute: the result of callTool handed to the model
Execute(result) ==
  IF ~result.success
  THEN Err(IF result.error # <<>> THEN result.error ELSE ExecutionFailed)
  ELSE Ok(result.result)

\* the server's answer arrives and is mapped by callTool (client.ts:180-205)
CallToolAnswered ==
  /\ fn.f = "callTool" /\ fn.pc = "call"
  /\ fn' = [fn EXCEPT !.pc = "mapped", !.out = MapAnswer(fn.answer)]
  /\ UNCHANGED <<poolVars, agent, skills>>

\* execute returns what callTool returned (converter.ts:97-109)
ExecuteReturns ==
  /\ fn.f = "callTool" /\ fn.pc = "mapped"
  /\ fn' = [fn EXCEPT !.pc = "done", !.out = Execute(fn.out)]
  /\ UNCHANGED <<poolVars, agent, skills>>

(* ---------------------------- specification ---------------------------- *)
\* tool ids a caller may pass: the namespaced ids, one without a second
\* underscore, one without the prefix, one of a server that is not configured
ToolIdInputs ==
  {getMCPToolId(s, t) : s \in ServerIds, t \in ToolNames}
    \cup {Prefix \o <<"a">>, <<"a">>, getMCPToolId(<<"b">>, NameC)}

\* connections and pool
Next ==
  \/ \E config \in Configs, ac \in BOOLEAN : AddServer(config, ac)
  \/ \E id \in ServerIds : ConnectServer(id)
  \/ \E id \in ServerIds : DisconnectServer(id)
  \/ \E c \in Objs, k \in 1..MaxAttempts : ConnectResolves(c, k)
  \/ \E c \in Objs, k \in 1..MaxAttempts : ConnectRejects(c, k)
  \/ \E c \in Objs, k \in 1..MaxAttempts : ListResolves(c, k)
  \/ \E c \in Objs, k \in 1..MaxAttempts : ListRejects(c, k)
  \/ \E c \in Objs, k \in 1..MaxAttempts : TransportError(c, k)
  \/ \E c \in Objs, k \in 1..MaxAttempts : TransportClose(c, k)
  \/ \E c \in Objs : CloseSettle(c)
  \/ \E c \in Objs, k \in 1..MaxAttempts : TransportCloseSettle(c, k)

Spec == Init /\ [][Next]_vars

\* connections and pool, with tool calls dispatched meanwhile; the connect()
\* calls that return at the guard, which change nothing else, are not recorded
NextCalls ==
  \/ Next /\ UNCHANGED skipped
  \/ \E toolId \in ToolIdInputs, a \in Args : ManagerCallTool(toolId, a)
  \/ \E c \in Objs, n \in ToolNames, a \in Args : ClientCallTool(c, n, a)
  \/ CallResolves
  \/ CallRejects
  \/ CallReturn

SpecCalls == Init /\ [][NextCalls]_vars

\* The promises disconnect() awaits, client.close() and transport.close(),
\* settle. That a server answers a call is not assumed.
SpecCallsFair ==
  /\ SpecCalls
  /\ \A c \in Objs : WF_vars(CloseSettle(c))
  /\ \A c \in Objs, k \in 1..MaxAttempts : WF_vars(TransportCloseSettle(c, k))

\* Configurations of the pool's servers: each id, enabled or not.
PoolConfigs == [id : ServerIds, enabled : BOOLEAN]
PoolIds == <<IdA, IdAB>>

\* A manager that has been in use: n servers registered, each one either never
\* connected or connected by its first connect().
InitPool ==
  /\ left = MaxAttempts
  /\ \E n \in 0..MaxClients, en \in [Objs -> BOOLEAN], up \in [Objs -> BOOLEAN] :
       /\ \A c \in Objs : c > n => ~en[c] /\ ~up[c]
       /\ clients = [i \in 1..n |-> i]
       /\ nObj = n
       /\ cfg = [c \in Objs |-> IF c <= n THEN [id |-> PoolIds[c], enabled |-> en[c]]
                                ELSE NoCfg]
       /\ status = [c \in Objs |-> IF up[c] THEN "connected" ELSE "disconnected"]
       /\ tools = [c \in Objs |-> IF up[c] THEN ListedTools(PoolIds[c]) ELSE <<>>]
       /\ connectedAt = [c \in Objs |-> IF up[c] THEN 1 ELSE 0]
       /\ transport = [c \in Objs |-> IF up[c] THEN 1 ELSE 0]
       /\ topen = [c \in Objs |-> IF up[c] THEN <<TRUE>> ELSE <<>>]
       /\ attempts = [c \in Objs |-> IF up[c] THEN <<Ended>> ELSE <<>>]
  /\ error = [c \in Objs |-> ""]
  /\ disc = [c \in Objs |-> NoDisc]
  /\ call = IdleCall
  /\ skipped = "none"
  /\ op = IdleOp
  /\ run = IdleRun
  /\ agent = NotInUse
  /\ skills = NotInUse
  /\ fn = IdleFn

\* Lists of configurations handed to loadServers: one per id, enabled or not.
LoadInputs ==
  {configs \in [1..Len(PoolIds) -> PoolConfigs] :
     \A j \in 1..Len(PoolIds) : configs[j].id = PoolIds[j]}

\* The continuation of an await whose promise has settled runs as a microtask,
\* before the event loop handles any other event or call.
Turn == op.pc # "resume"

\* One operation of the pool awaited to its end, while connectServer is called
\* on the side; the servers answer or refuse what is asked of them, and their
\* transports close only when closed. A connectServer that returns at the guard
\* changes nothing and is not recorded.
NextPool ==
  \/ \E id \in ServerIds : Turn /\ ConnectServer(id) /\ UNCHANGED skipped
  \/ \E c \in Objs, k \in 1..MaxAttempts : Turn /\ ConnectResolves(c, k)
  \/ \E c \in Objs, k \in 1..MaxAttempts : Turn /\ ConnectRejects(c, k)
  \/ \E c \in Objs, k \in 1..MaxAttempts : Turn /\ ListResolves(c, k)
  \/ \E c \in Objs, k \in 1..MaxAttempts : Turn /\ ListRejects(c, k)
  \/ \E c \in Objs : Turn /\ CloseSettle(c)
  \/ \E c \in Objs, k \in 1..MaxAttempts : Turn /\ TransportCloseSettle(c, k)
  \/ ConnectAll
  \/ ConnectAllResume
  \/ \E config \in PoolConfigs, ac \in BOOLEAN : AddServerCall(config, ac)
  \/ AddServerEnd
  \/ \E id \in ServerIds : RemoveServerCall(id)
  \/ RemoveServerEnd
  \/ \E id \in ServerIds, config \in PoolConfigs : UpdateServerCall(id, config)
  \/ UpdateServerReadd
  \/ UpdateServerEnd
  \/ DisconnectAll
  \/ DisconnectAllResume
  \/ \E configs \in LoadInputs, ac \in BOOLEAN : LoadServers(configs, ac)
  \/ LoadServersResume

SpecPool == InitPool /\ [][NextPool]_vars

\* one stream, consumed to its end
NextStream ==
  \/ run.pc = "idle" /\ \E script \in Scripts, mode \in Modes : StreamCall(script, mode)
  \/ StreamStart
  \/ StreamText
  \/ StreamModelDone
  \/ StreamToolsDone
  \/ StreamFails
  \/ StreamFinish

SpecStream == Init /\ [][NextStream]_vars

\* The consumer keeps pulling and the event loop keeps running: a step of the
\* stream that can be taken is taken.
SpecStreamFair == SpecStream /\ WF_vars(NextStream)

\* The document store at the start: at each path of the directory a document in
\* its first version, or none.
InitDisks ==
  {d \in [SkillPaths -> Docs \cup {NoDoc}] :
     d[Gone] = NoDoc /\ \A p \in SkillPaths : d[p] # NoDoc => d[p].ver = 1}

InitSkills ==
  /\ InitManager /\ agent = IdleAgent /\ fn = IdleFn
  /\ \E d \in InitDisks : skills = [IdleSkills EXCEPT !.disk = d]

\* the lists of references a caller may hand to loadForAgent
RefLists == UNION {[1..n -> SkillRefs] : n \in 0..MaxRefs}

\* loadForAgent called again and again over a store that stays as it is, the
\* cache filling
NextLoader ==
  \/ /\ skills.loader[1].pc = "idle"
     /\ \E refs \in RefLists : LoadForAgent(1, refs)
     /\ UNCHANGED <<poolVars, agent, fn>>
  \/ LoaderStep(1) /\ UNCHANGED <<poolVars, agent, fn>>
  \/ LoaderReturn(1) /\ UNCHANGED <<poolVars, agent, fn>>

SpecLoader == InitSkills /\ [][NextLoader]_vars

\* loadSkill calls, one after another or overlapping, while documents are
\* edited and the cache is invalidated
NextCache ==
  \/ \E n \in 1..MaxLoads, path \in SkillPaths : LoadSkillCall(n, path)
  \/ \E n \in 1..MaxLoads : ReadFile(n)
  \/ \E n \in 1..MaxLoads : LoadSkillResume(n)
  \/ \E path \in SkillPaths : WriteFile(path)
  \/ \E path \in SkillPaths : InvalidateSkill(path)
  \/ ClearCache

SpecCache == InitSkills /\ [][NextCache]_vars

\* An executor constructed with a profile, over a manager with nothing
\* registered and a store with two skills.
InitAgent ==
  /\ InitManager /\ fn = IdleFn
  /\ skills = [IdleSkills EXCEPT !.disk = AgentDisk]
  /\ \E p \in Profiles : agent = [IdleAgent EXCEPT !.config = p]

\* initialize() called by runs of the executor, one after another or
\* overlapping; the configuration updated between runs; the servers answer or
\* refuse the connections initialize() asks for
NextAgent ==
  \/ \E n \in 1..MaxInits : InitializeCall(n)
  \/ \E n \in 1..MaxInits : PromptLoaded(n)
  \/ \E n \in 1..MaxInits : LoaderStep(n) /\ UNCHANGED <<poolVars, agent, fn>>
  \/ \E n \in 1..MaxInits : SkillsLoaded(n)
  \/ \E n \in 1..MaxInits : ToolsStart(n)
  \/ \E n \in 1..MaxInits, found \in BOOLEAN : StorageAnswers(n, found)
  \/ \E n \in 1..MaxInits : ConnectAwaited(n)
  \/ \E n \in 1..MaxInits : InitializeEnd(n)
  \/ \E config \in Profiles : UpdateConfig(config)
  \/ \E c \in Objs, k \in 1..MaxAttempts : ConnectResolves(c, k)
  \/ \E c \in Objs, k \in 1..MaxAttempts : ConnectRejects(c, k)
  \/ \E c \in Objs, k \in 1..MaxAttempts : ListResolves(c, k)
  \/ \E c \in Objs, k \in 1..MaxAttempts : ListRejects(c, k)

SpecAgent == InitAgent /\ [][NextAgent]_vars

\* the profiles that refer to no server
LocalProfiles == {p \in Profiles : p.mcp = <<>>}

\* An executor constructed with a profile that refers to no server.
InitPrompt ==
  /\ InitManager /\ fn = IdleFn
  /\ skills = [IdleSkills EXCEPT !.disk = AgentDisk]
  /\ \E p \in LocalProfiles : agent = [IdleAgent EXCEPT !.config = p]

\* initialize() called by runs of the executor, one after another or
\* overlapping; the configuration updated between runs
NextPrompt ==
  \/ \E n \in 1..MaxInits : InitializeCall(n)
  \/ \E n \in 1..MaxInits : PromptLoaded(n)
  \/ \E n \in 1..MaxInits : LoaderStep(n) /\ UNCHANGED <<poolVars, agent, fn>>
  \/ \E n \in 1..MaxInits : SkillsLoaded(n)
  \/ \E n \in 1..MaxInits : ToolsStart(n)
  \/ \E n \in 1..MaxInits : InitializeEnd(n)
  \/ \E config \in LocalProfiles : UpdateConfig(config)

SpecPrompt == InitPrompt /\ [][NextPrompt]_vars

\* the profiles that refer to servers
ServerProfiles == {p \in Profiles : p.mcp # <<>>}

\* An executor constructed with a profile that refers to servers, beside a
\* manager (the singleton of manager.ts:287-297) that has been in use: n servers
\* registered, each enabled or not, never connected or connected.
InitEngine ==
  /\ left = MaxAttempts
  /\ \E n \in 0..MaxClients, en \in [Objs -> BOOLEAN], up \in [Objs -> BOOLEAN] :
       /\ \A c \in Objs : c > n => ~en[c] /\ ~up[c]
       /\ clients = [i \in 1..n |-> i]
       /\ nObj = n
       /\ cfg = [c \in Objs |-> IF c <= n THEN [id |-> PoolIds[c], enabled |-> en[c]]
                                ELSE NoCfg]
       /\ status = [c \in Objs |-> IF up[c] THEN "connected" ELSE "disconnected"]
       /\ tools = [c \in Objs |-> IF up[c] THEN ListedTools(PoolIds[c]) ELSE <<>>]
       /\ connectedAt = [c \in Objs |-> IF up[c] THEN 1 ELSE 0]
       /\ transport = [c \in Objs |-> IF up[c] THEN 1 ELSE 0]
       /\ topen = [c \in Objs |-> IF up[c] THEN <<TRUE>> ELSE <<>>]
       /\ attempts = [c \in Objs |-> IF up[c] THEN <<Ended>> ELSE <<>>]
  /\ error = [c \in Objs |-> ""]
  /\ disc = [c \in Objs |-> NoDisc]
  /\ call = IdleCall
  /\ skipped = "none"
  /\ op = IdleOp
  /\ run = IdleRun
  /\ fn = IdleFn
  /\ skills = [IdleSkills EXCEPT !.disk = AgentDisk]
  /\ \E p \in ServerProfiles : agent = [IdleAgent EXCEPT !.config = p]

\* initialize() called by runs of the executor, one after another or
\* overlapping; nothing else asks the manager for anything, and the servers
\* answer or refuse the connections initialize() asks for
NextEngine ==
  \/ \E n \in 1..MaxInits : InitializeCall(n)
  \/ \E n \in 1..MaxInits : PromptLoaded(n)
  \/ \E n \in 1..MaxInits : ToolsStart(n)
  \/ \E n \in 1..MaxInits, found \in BOOLEAN : StorageAnswers(n, found)
  \/ \E n \in 1..MaxInits : ConnectAwaited(n)
  \/ \E n \in 1..MaxInits : InitializeEnd(n)
  \/ \E c \in Objs, k \in 1..MaxAttempts : ConnectResolves(c, k)
  \/ \E c \in Objs, k \in 1..MaxAttempts : ConnectRejects(c, k)
  \/ \E c \in Objs, k \in 1..MaxAttempts : ListResolves(c, k)
  \/ \E c \in Objs, k \in 1..MaxAttempts : ListRejects(c, k)

SpecEngine == InitEngine /\ [][NextEngine]_vars

\* strings of up to n characters
StringsUpTo(n) == UNION {[1..m -> Chars] : m \in 0..n}

\* the triggers a skill may carry: commands and words; the lists of n of them
Triggers == UNION {[1..m -> Chars \ {" "}] : m \in 1..MaxTrigger}
TriggerLists(n) == [1..n -> Triggers]

\* the lists of skills handed to matchTriggers: up to two skills, with up to
\* MaxTriggers triggers between them
SkillLists ==
  {<<>>}
    \cup UNION {{<<[id |-> "s", triggers |-> a]>> : a \in TriggerLists(n)} :
                 n \in 0..MaxTriggers}
    \cup UNION {{<<[id |-> "s", triggers |-> a], [id |-> "t", triggers |-> b]>> :
                   a \in TriggerLists(nm[1]), b \in TriggerLists(nm[2])} :
                 nm \in {x \in (0..MaxTriggers) \X (0..MaxTriggers) :
                           x[1] + x[2] <= MaxTriggers}}

\* matchTriggers about to be applied to an input and a list of skills
InitMatch ==
  /\ InitManager /\ agent = IdleAgent /\ skills = IdleSkills
  /\ \E input \in StringsUpTo(MaxInput), list \in SkillLists :
       fn = [f |-> "matchTriggers", pc |-> "call", input |-> input, skills |-> list,
             out |-> <<>>]

NextMatch == MatchTriggers

SpecMatch == InitMatch /\ [][NextMatch]_vars

\* schema nodes without nodes below them, and with one level below them
Leaves == {Null, Scalar} \cup {Obj(t, Absent, Absent, Absent) : t \in Types}
Inner ==
  Leaves \cup {Obj("array", i, Absent, Absent) : i \in Leaves}
         \cup {Obj("object", Absent, [key \in {"x"} |-> p], r) :
                 p \in Leaves, r \in {Absent, [kind |-> "array", of |-> {"x"}]}}

\* the input schemas: an object with the properties x and y, x required or not;
\* or any other node
InputSchemas ==
  (Inner \ {Null})
    \cup {Obj("object", Absent, [key \in {"x", "y"} |-> IF key = "x" THEN a ELSE b], r) :
            a \in Inner, b \in Inner, r \in {Absent, [kind |-> "array", of |-> {"x"}]}}

\* the argument bags a model calls the tool with: any of the keys x and k, with
\* a string, a number or a bag at each
Values == {Str, Num, Bag([key \in {"k"} |-> Str])}
ArgBags == UNION {{Bag(at) : at \in [keys -> Values]} : keys \in SUBSET {"x", "k"}}

\* the schema adapter about to be applied to a tool's inputSchema, and the
\* arguments the tool will be called with
InitSchema ==
  /\ InitManager /\ agent = IdleAgent /\ skills = IdleSkills
  /\ \E schema \in InputSchemas, args \in ArgBags :
       fn = [f |-> "mcpSchemaToZod", pc |-> "call", schema |-> schema, out |-> ZUnknown,
             args |-> args, passed |-> Rejected]

NextSchema == McpSchemaToZod \/ CoreToolCall

SpecSchema == InitSchema /\ [][NextSchema]_vars

\* a tool call made on a connected server, its answer about to arrive
InitAnswer ==
  /\ InitManager /\ agent = NotInUse /\ skills = NotInUse
  /\ \E answer \in Answers :
       fn = [f |-> "callTool", pc |-> "call", answer |-> answer, out |-> Err(<<>>)]

NextAnswer == CallToolAnswered \/ ExecuteReturns

SpecAnswer == InitAnswer /\ [][NextAnswer]_vars

(* ------------------------------- claims -------------------------------- *)
ConnectedServers == {c \in Registered : status[c] = "connected"}

AllowedEdges ==
  { <<"disconnected", "connecting">>, <<"connecting", "connected">>,
    <<"connecting", "error">>, <<"connected", "error">>,
    <<"connected", "disconnected">>, <<"error", "disconnected">>,
    <<"error", "connecting">> }

\* C1: every change of a connection's status follows one of the listed edges;
\* in particular it never goes from disconnected or error straight to connected.
C1_StatusEdges ==
  [][\A c \in Objs :
       status'[c] # status[c] => <<status[c], status'[c]>> \in AllowedEdges]_vars

NotConnectedFailures ==
  {Failure("Not connected to MCP server"), Failure("Server is not connected")}

CatalogIds ==
  UNION {{getMCPToolId(cfg[c].id, tools[c][i]) : i \in 1..Len(tools[c])} :
           c \in ConnectedServers}

C4_OneEntryPerCapability ==
  \A c \in ConnectedServers : \A i \in 1..Len(tools[c]) :
    LET id == getMCPToolId(cfg[c].id, tools[c][i]) IN
    id \in DOMAIN getAllTools /\ getAllTools[id] = <<c, tools[c][i]>>

\* C5: dispatch of namespaced(s, t) for a registered, connected server s hands
\* capability t with the same args to s, and to no other server.
C5_DispatchRoundTrip ==
  [][\A c \in Objs, t \in ToolNames, a \in Args :
       (/\ call.pc = "idle"
        /\ c \in Registered
        /\ status[c] = "connected"
        /\ ManagerCallTool(getMCPToolId(cfg[c].id, t), a))
         => call'.sent = <<c, t, a>>]_vars

Structured(r) ==
  /\ r.kind = "return"
  /\ r.success => r.error = ""
  /\ ~r.success => r.error # ""

C7_ConnectIsNoop ==
  [][\A id \in ServerIds :
       LET c == Lookup(id) IN
       (c # 0 /\ status[c] \in {"connected", "connecting"} /\ ConnectServer(id))
         => UNCHANGED connState]_vars

\* a connect() has returned at its guard in status connected, with one discovery
\* behind the connection and a further connect() still admitted
C7_Witness ==
  /\ skipped = "connected"
  /\ \E c \in Registered :
       status[c] = "connected" /\ Len(attempts[c]) = 1 /\ left > 0

\* C8: never are two connection attempts of one connection in flight.
C8_OneAttemptInFlight ==
  \A c \in Objs :
    Cardinality({k \in 1..Len(attempts[c]) : InFlight(attempts[c][k])}) <= 1

\* C9: when listing the capabilities fails after the transport connected,
\* connect() ends in status error with the failure's message, and the connection
\* was at no point of that attempt connected.
C9_DiscoveryFailure ==
  [][\A c \in Objs, k \in 1..MaxAttempts :
       ListRejects(c, k)
         => /\ status'[c] = "error"
            /\ error'[c] = "list failed"
            /\ ~attempts[c][k].seen]_vars

Cleared(st, tl, at, tr) == st = "disconnected" /\ tl = <<>> /\ at = 0 /\ tr = 0

\* C10: after disconnect() returns, whatever the state before, the status is
\* disconnected, the capability list empty, the stamp absent and the transport
\* handle released. disconnect() may be called in any state, and where it returns
\* at once that state is the one after its return.
C10_DisconnectClears ==
  /\ [](\A c \in Registered :
          DisconnectIsNoop(status[c])
            => Cleared(status[c], tools[c], connectedAt[c], transport[c]))
  /\ [][\A c \in Objs :
          (c \in Created /\ Disconnecting(c) > 0 /\ Disconnecting(c)' = 0)
            => Cleared(status'[c], tools'[c], connectedAt'[c], transport'[c])]_vars

\* the ids of the registered servers whose config is enabled
EnabledIds == {cfg[c].id : c \in {r \in Registered : cfg[r].enabled}}

\* C11: connectAll attempts every enabled server, passes over the disabled ones,
\* returns one outcome per enabled server (success or that server's error), and
\* never throws: a failing server neither stops the others nor leaves the call.
C11_ConnectAllOutcomes ==
  [][(op'.kind = "connectAll" /\ op'.pc = "done" /\ op.pc # "done")
       => /\ op'.out = "return"
          /\ DOMAIN op'.results = EnabledIds']_vars

\* connectAll has returned with one server connected and the other's error
C11_Witness ==
  /\ op.kind = "connectAll" /\ op.pc = "done"
  /\ DOMAIN op.results = {IdA, IdAB}
  /\ op.results[IdA] # "" /\ op.results[IdAB] = ""
  /\ status[Lookup(IdAB)] = "connected"

\* the registered servers connectAll has called connect() on so far
Started == {clients[j] : j \in {h \in 1..Len(clients) : h <= op.i}}

\* C12: connectAll launches the connection of every enabled server when it is
\* called: while it awaits one server's connection, every enabled server that
\* was registered at the call has had its connect() called.
C12_ConnectAllConcurrent ==
  (op.kind = "connectAll" /\ op.pc = "connect")
    => \A j \in 1..op.n : cfg[clients[j]].enabled => clients[j] \in Started

\* C13: addServer with a registered id fails with the duplicate error and leaves
\* the registry and every connection as they were; with a fresh id it registers
\* one new connection for the config, disconnected, and starts its connection
\* only when autoConnect was asked.
C13_AddServer ==
  [][/\ (op.pc = "idle" /\ op'.kind = "addServer")
        => IF op'.config.id \in {cfg[c].id : c \in Registered}
           THEN /\ op'.pc = "resume" /\ op'.err = "Server already exists"
                /\ UNCHANGED <<clients, nObj, cfg, connState>>
           ELSE /\ clients' = Append(clients, nObj')
                /\ nObj' \notin Registered
                /\ cfg'[nObj'] = op'.config
                /\ \A c \in Registered :
                     /\ cfg'[c] = cfg[c] /\ status'[c] = status[c]
                     /\ tools'[c] = tools[c] /\ attempts'[c] = attempts[c]
                /\ \/ status'[nObj'] = "disconnected" /\ attempts'[nObj'] = <<>>
                   \/ op'.auto /\ status'[nObj'] = "connecting"
      /\ (op.kind = "addServer" /\ op.pc = "resume" /\ op'.pc = "done"
           /\ op.err = "Server already exists")
        => op'.out = "throw" /\ op'.err = op.err]_vars

\* addServer has thrown the duplicate error for the id of a connected server
C13_Witness ==
  /\ op.kind = "addServer" /\ op.pc = "done" /\ op.out = "throw"
  /\ op.err = "Server already exists"
  /\ status[Lookup(op.config.id)] = "connected"
  /\ cfg[Lookup(op.config.id)] # op.config

\* C14: when updateServer returns, the connection it replaced is disconnected and
\* not registered, a connection for the new config is registered, connected if
\* the replaced one was connected, and without any connect() made if it was not.
C14_UpdatePreservesState ==
  [][(op'.kind = "updateServer" /\ op'.pc = "done" /\ op.pc # "done"
        /\ op'.out = "return")
       => /\ status'[op'.old] = "disconnected"
          /\ op'.old \notin Registered'
          /\ \E c \in Registered' :
               /\ cfg'[c] = op'.config
               /\ op'.was => status'[c] = "connected"
               /\ ~op'.was => attempts'[c] = <<>>]_vars

Live(c) == status[c] \in {"connecting", "connected"}

\* C15: a connection that is connecting or connected is registered in the pool:
\* one that removeServer or updateServer has taken out of the registry is not
\* live, and does not become live again.
C15_LiveIsRegistered == \A c \in Created : Live(c) => c \in Registered

RegisteredIds == {cfg[c].id : c \in Registered}

\* C16: connectAll, disconnectAll and loadServers process every server of their
\* input and return instead of throwing, even when one server's connection
\* fails: when loadServers ends, every configuration of its list is registered.
\* (A list that holds an id already registered, which addServer refuses, is left
\* aside.)
C16_FanOutPartial ==
  [][(op'.kind \in {"connectAll", "disconnectAll", "loadServers"}
        /\ op'.pc = "done" /\ op.pc # "done"
        /\ op'.err # "Server already exists")
       => /\ op'.out = "return"
          /\ \A j \in 1..Len(op'.configs) : op'.configs[j].id \in RegisteredIds']_vars

\* the positions of the yielded events of a type
EventsOf(type) == {i \in 1..Len(run.events) : run.events[i].type = type}

\* C17: the events come in the order of the model and the dispatch loop: a
\* tool_call_start is followed by the tool_call_end of the same call before any
\* other tool_call_start, and the text of a later step comes after the
\* tool_call_end of an earlier step's call.
C17_EventOrder ==
  /\ \A i, j \in EventsOf("tool_call_start") :
       i < j => \E k \in EventsOf("tool_call_end") :
                  i < k /\ k < j /\ run.events[k].id = run.events[i].id
  /\ \A i \in EventsOf("text_delta"), k \in EventsOf("tool_call_end") :
       run.events[i].id[1] > run.events[k].id[1] => k < i

\* the tool_call_end events yielded for call j of step s
EndsOf(s, j) == {k \in EventsOf("tool_call_end") : run.events[k].id = <<s, j>>}

\* the starts have distinct ids, every end has its start before it, and once the
\* run is over every start has exactly one end, after it
Paired ==
  /\ \A i, j \in EventsOf("tool_call_start") :
       run.events[i].id = run.events[j].id => i = j
  /\ \A k \in EventsOf("tool_call_end") :
       \E i \in EventsOf("tool_call_start") : i < k /\ run.events[i].id = run.events[k].id
  /\ run.pc = "done" =>
       \A i \in EventsOf("tool_call_start") :
         /\ Cardinality(EndsOf(run.events[i].id[1], run.events[i].id[2])) = 1
         /\ \A k \in EndsOf(run.events[i].id[1], run.events[i].id[2]) : i < k

\* call j of step s has been dispatched to a tool that never resolves
Unresolved(s, j) ==
  /\ run.pc = "tools" /\ run.s = s
  /\ j <= run.script[s].calls /\ run.script[s].fate = "hangs"

\* C18: the tool_call_start events have distinct ids, each has exactly one
\* tool_call_end of its id, after it, and no tool_call_end comes without its
\* start; a call whose tool never resolves still gets its tool_call_end.
C18_StartedFinished ==
  /\ []Paired
  /\ \A s \in 1..MaxSteps, j \in 1..MaxCalls : Unresolved(s, j) ~> (EndsOf(s, j) # {})

Terminals == EventsOf("message_end") \cup EventsOf("error")

\* the events yielded so far: one message_start, first; at most one terminal
\* event, last, there exactly when the generator has returned; a message_end
\* carries the id of the message_start; the length is bounded by the steps and
\* calls; no text_delta when the model produced no text
Shape ==
  /\ run.pc \in {"idle", "init"} <=> run.events = <<>>
  /\ run.events # <<>> => run.events[1] = MessageStart
  /\ EventsOf("message_start") \subseteq {1}
  /\ Cardinality(Terminals) <= 1
  /\ Terminals \subseteq {Len(run.events)}
  /\ run.pc = "done" <=> Terminals # {}
  /\ \A k \in EventsOf("message_end") : run.events[k].id = run.events[1].id
  /\ Len(run.events) <= 2 + MaxSteps + 2 * MaxSteps * MaxCalls
  /\ (\A i \in 1..Len(run.script) : ~run.script[i].text) => EventsOf("text_delta") = {}

\* a run has been started in which no tool hangs
Begun == run.pc = "init" /\ run.script[Len(run.script)].fate # "hangs"

RECURSIVE TextsUpTo(_, _)
TextsUpTo(sc, n) ==
  IF n = 0 THEN <<>>
  ELSE TextsUpTo(sc, n - 1) \o (IF sc[n].text THEN <<TextDelta(n)>> ELSE <<>>)

\* the run's model call or tool dispatch has failed
Failed ==
  /\ run.pc = "done"
  /\ run.script[Len(run.script)].fate \in {"modelFails", "toolFails"}

\* C20: when the model call or a tool dispatch fails, the run's events hold
\* exactly one error event, as their last; no message_end is emitted; and the
\* events emitted before the failure are kept.
C20_FailureIsOneError ==
  Failed =>
    /\ EventsOf("error") = {Len(run.events)}
    /\ EventsOf("message_end") = {}
    /\ SubSeq(run.events, 1, Len(run.events) - 1)
         = <<MessageStart>> \o TextsUpTo(run.script, Len(run.script))

\* a tool's dispatch has failed in the second step, after the first step's text
C20_Witness ==
  /\ Failed
  /\ run.script[Len(run.script)].fate = "toolFails"
  /\ run.events = <<MessageStart, TextDelta(1), ErrorEvent>>

\* the model asks for one more tool call after every result, and the tools
\* answer: maxSteps steps of one call each
StepLimited ==
  /\ Len(run.script) = MaxSteps
  /\ \A i \in 1..MaxSteps : run.script[i].calls = 1 /\ run.script[i].fate = "ok"

\* C21: with the step limit n and a model that asks for another tool call after
\* every result, the run has emitted exactly n tool_call_start and n
\* tool_call_end events when it ends, and it ends with a message_end whose
\* finishReason is step-limit.
C21_StepLimit ==
  (run.pc = "done" /\ StepLimited) =>
    /\ Cardinality(EventsOf("tool_call_start")) = MaxSteps
    /\ Cardinality(EventsOf("tool_call_end")) = MaxSteps
    /\ run.events[Len(run.events)] = MessageEnd("step-limit")

\* C25: the list loadForAgent returns holds no two skills with the same id.
C25_NoDuplicateSkill ==
  skills.loader[1].pc = "done" =>
    \A j, k \in 1..Len(skills.loader[1].out) :
      skills.loader[1].out[j].id = skills.loader[1].out[k].id => j = k

\* the skills of the store a reference resolves to: the document at its path,
\* or, there being none, the documents of the directory that carry its id
ResolvesTo(disk, ref) ==
  IF disk[ref.path] # NoDoc THEN {Parse(disk[ref.path], ref.path)}
  ELSE {Parse(disk[p], p) : p \in {q \in SkillPaths : disk[q].id = ref.id}}

\* C26: loadForAgent returns: each skill of the list is one an enabled reference
\* resolves to (by its path, else by its id), the skills stand in the order of
\* their references, and the skill of every enabled reference that resolves is
\* in the list.
C26_ResolvedInOrder ==
  skills.loader[1].pc = "done" =>
    LET l == skills.loader[1] IN
    /\ \E f \in [1..Len(l.out) -> 1..Len(l.refs)] :
         /\ \A j, k \in 1..Len(l.out) : j < k => f[j] < f[k]
         /\ \A k \in 1..Len(l.out) : l.out[k] \in ResolvesTo(l.disk0, l.refs[f[k]])
    /\ \A i \in 1..Len(l.refs) :
         \A sk \in ResolvesTo(l.disk0, l.refs[i]) :
           \E k \in 1..Len(l.out) : l.out[k].id = sk.id

\* C28: a loadSkill(path) called after invalidateSkill(path) or clearCache()
\* returned gives the skill of a document the store held at the path at or after
\* that invalidation.
C28_FreshAfterInvalidate ==
  \A n \in 1..MaxLoads :
    (skills.loads[n].pc = "done" /\ skills.loads[n].inv) =>
      \/ skills.loads[n].ret = NoSkill /\ NoDoc \in skills.loads[n].ok
      \/ \E doc \in skills.loads[n].ok \ {NoDoc} :
           skills.loads[n].ret = Parse(doc, skills.loads[n].path)

\* every initialize() call made has returned, and at least one was made
Settled ==
  /\ agent.calls[1].pc = "done"
  /\ \A n \in 1..MaxInits : agent.calls[n].pc \in {"idle", "done"}

\* the tools a single initialize() of the profile sets, the servers being as
\* they are now
SingleCatalog(config) ==
  withMCPTools(withBuiltin(EmptyMap, config.builtin), config.mcp)

\* C22: after any number of initialize() calls with no updateConfig since the
\* executor was constructed, one after another or overlapping, the system prompt
\* is the base prompt followed by the skill context exactly once, and the tools
\* are those a single initialize() sets.
C22_InitializeIdempotent ==
  (Settled /\ ~agent.updated) =>
    /\ agent.systemPrompt
         = loadSystemPrompt(agent.config.prompt)
             \o (IF agent.loadedSkills = <<>> THEN <<>>
                 ELSE buildSkillContext(agent.loadedSkills))
    /\ (\A c \in Objs : \A k \in 1..Len(attempts[c]) : ~InFlight(attempts[c][k]))
         => agent.tools = SingleCatalog(agent.config)

\* C23: once the initialize() that follows updateConfig(c) has returned, the
\* prompt begins with the prompt of c and holds skill text only when c has
\* skills, the loaded skills are those of c, and every tool is a built-in tool
\* of c or one a server reference of c admits.
C23_UpdateReplaces ==
  (Settled /\ agent.updated) =>
    /\ SubSeq(agent.systemPrompt, 1, Len(loadSystemPrompt(agent.config.prompt)))
         = loadSystemPrompt(agent.config.prompt)
    /\ agent.config.skills = <<>> =>
         agent.systemPrompt = loadSystemPrompt(agent.config.prompt)
    /\ agent.config.skills = <<>> => agent.loadedSkills = <<>>
    /\ \A x \in DOMAIN agent.tools :
         IF agent.tools[x][1] = 0 THEN x \in agent.config.builtin
         ELSE \E i \in 1..Len(agent.config.mcp) :
                Admits(agent.config.mcp[i], x, agent.tools[x])

\* C24: an executor whose system prompt is a file that cannot be read never
\* becomes initialized.
C24_UnreadablePromptFails ==
  (agent.config.prompt.type = "file" /\ ~Readable(agent.config.prompt.path))
    => ~agent.initialized

\* C29: with no updateConfig since the executor was constructed, a tool of a
\* server is among the executor's tools only if the profile has a reference to
\* that server whose enabledTools is absent, empty, or holds the tool's name.
C29_AllowListKept ==
  ~agent.updated =>
    \A x \in DOMAIN agent.tools :
      agent.tools[x][1] # 0 =>
        \E i \in 1..Len(agent.config.mcp) :
          /\ agent.config.mcp[i].serverId = cfg[agent.tools[x][1]].id
          /\ \/ agent.config.mcp[i].enabledTools = {}
             \/ agent.tools[x][2] \in agent.config.mcp[i].enabledTools

\* a string without the white space at its ends
Stripped(s) ==
  LET inked == {i \in 1..Len(s) : s[i] # " "} IN
  IF inked = {} THEN <<>>
  ELSE SubSeq(s, Min(inked), CHOOSE i \in inked : \A j \in inked : j <= i)

\* the skill has a trigger that the text, already in lower case, fits: begun by
\* a trigger with the command marker, or containing another trigger
Fits(text, skill) ==
  \E j \in 1..Len(skill.triggers) :
    LET t == toLowerCase(skill.triggers[j]) IN
    IF t[1] = "/" THEN Len(t) <= Len(text) /\ \A i \in 1..Len(t) : text[i] = t[i]
    ELSE \E d \in 0..(Len(text) - Len(t)) : \A i \in 1..Len(t) : text[d + i] = t[i]

\* the skills of the list that fit the text, in the list's order
Fitting(text, list) == SelectSeq(list, LAMBDA skill : Fits(text, skill))

\* the list with every trigger in upper case
Shouted(list) ==
  [k \in 1..Len(list) |->
     [list[k] EXCEPT !.triggers = [j \in 1..Len(@) |-> toUpperCase(@[j])]]]

\* the result is the same for the input and the triggers in upper case
CaseBlind ==
  [k \in 1..Len(fn.out) |-> fn.out[k].id]
    = LET loud == matchTriggers(toUpperCase(fn.input), Shouted(fn.skills)) IN
      [k \in 1..Len(loud) |-> loud[k].id]

Malformed(node) ==
  \/ node.kind \in {"null", "scalar"}
  \/ node.kind = "object" /\ node.type \in {"none", "other"}

\* the schema a field of the result stands for, optional or not
Unwrapped(field) == IF field.z = "optional" THEN field.of ELSE field

\* C30: the schema adapter returns for every input schema, raising nothing; in
\* the result a malformed property accepts any value, a malformed item schema
\* makes an array of any values, and a string, number or boolean property
\* beside it is translated as such.
C30_AdapterTotal ==
  (fn.f = "mcpSchemaToZod" /\ fn.pc = "done") =>
    /\ fn.out # TypeError
    /\ (fn.schema.kind = "object" /\ fn.schema.type = "object"
           /\ fn.schema.properties # Absent) =>
         \A key \in DOMAIN fn.schema.properties :
           LET node == fn.schema.properties[key]
               field == Unwrapped(fn.out.shape[key]) IN
           /\ Malformed(node) => field = ZUnknown
           /\ (node.kind = "object" /\ node.type \in {"string", "boolean"})
                => field = [z |-> node.type]
           /\ (node.kind = "object" /\ node.type = "array" /\ Malformed(node.items))
                => field = ZArray(ZUnknown)

\* an object schema that declares no properties
Propertyless(node) ==
  node.kind = "object" /\ node.type = "object" /\ node.properties = Absent

\* C31: for an object schema without properties, at the top of the input
\* schema or at a property of it, the descriptor is an open record: the
\* argument bag (the bag given for the property) is accepted and handed to the
\* invocation with all its keys and values.
C31_OpenRecord ==
  (fn.f = "mcpSchemaToZod" /\ fn.pc = "called") =>
    /\ Propertyless(fn.schema) => fn.passed = fn.args
    /\ (fn.schema.kind = "object" /\ fn.schema.type = "object"
          /\ fn.schema.properties # Absent /\ fn.passed # Rejected) =>
         \A key \in DOMAIN fn.schema.properties \cap DOMAIN fn.args.at :
           (Propertyless(fn.schema.properties[key]) /\ fn.args.at[key].v = "object")
             => /\ key \in DOMAIN fn.passed.at
                /\ fn.passed.at[key] = fn.args.at[key]
\* C32: whatever the shape of the server's answer, one with the error flag
\* becomes success = false with a description, and one without it becomes
\* success = true with the direct value, or with the joined text of the text
\* blocks, as result.
C32_ResultMapping ==
  (fn.f = "callTool" /\ fn.pc \in {"mapped", "done"}) =>
    IF fn.answer.isError = "true"
    THEN ~fn.out.success /\ fn.out.error # <<>>
    ELSE /\ fn.out.success
         /\ fn.answer.toolResult => fn.out.result = ToolResultValue
         /\ (~fn.answer.toolResult /\ fn.answer.content.is = "array")
              => fn.out.result = Text(TextContent(fn.answer.content.of))
\* the text of a prompt source: the inline content, the text of the file
RawText(source) == IF source.type = "inline" THEN source.content ELSE <<"F">>

\* no reference of the list resolves: each is switched off, or neither its path
\* nor its id is in the store
NoneResolves(refs) ==
  \A i \in 1..Len(refs) :
    \/ ~refs[i].enabled
    \/ /\ skills.disk[refs[i].path] = NoDoc
       /\ \A q \in SkillPaths : skills.disk[q] = NoDoc \/ skills.disk[q].id # refs[i].id

C34_EveryRunEnds == (run.pc = "init") ~> (Terminals # {})
\* a tool call is awaiting the answer of server c
CallPending(c) == call.pc = "await" /\ call.sent[1] = c

\* C35: a call that is in flight on a server when disconnect() is called on it
\* does not stay pending: it completes, with a failure unless the server had
\* answered it.
C35_DisconnectEndsCall ==
  \A c \in Objs : (CallPending(c) /\ Disconnecting(c) > 0) ~> ~CallPending(c)
\* disconnect() has returned on connection c and connect() has not been called
\* since: the handle is released, which only disconnect() does, and connect()
\* sets it again
Released(c) ==
  /\ c \in Created /\ attempts[c] # <<>>
  /\ transport[c] = 0 /\ Disconnecting(c) = 0

\* C36: once disconnect() has returned, a connect() that was in flight meanwhile
\* leaves the status disconnected and the capability list empty when its awaits
\* settle.
C36_DisconnectedStays ==
  [][\A c \in Objs, k \in 1..MaxAttempts :
       (/\ Released(c) /\ status[c] = "disconnected"
        /\ \/ ConnectResolves(c, k) \/ ConnectRejects(c, k)
           \/ ListResolves(c, k) \/ ListRejects(c, k))
         => status'[c] = "disconnected" /\ tools'[c] = <<>>]_vars
\* C37: an error or close notification of a transport that is not the
\* connection's current one - released by disconnect(), or superseded by the
\* transport of a later connect() - changes neither the status nor the last
\* error nor the capability list.
C37_StaleTransportIgnored ==
  [][\A c \in Objs, k \in 1..MaxAttempts :
       (k # transport[c] /\ (TransportError(c, k) \/ TransportClose(c, k)))
         => status'[c] = status[c] /\ error'[c] = error[c] /\ tools'[c] = tools[c]]_vars

\* C38: a server connectAll reports success for is connected at the moment its
\* attempt completes, also when another attempt on it was in flight at the call:
\* when the connect() connectAll awaited has resolved, the server's status is
\* connected, never connecting or error.
C38_SuccessIsConnected ==
  (op.kind = "connectAll" /\ op.pc = "resume" /\ op.err = "")
    => status[op.obj] = "connected"

\* C39: updateServer never drops a server. On the step in which its addServer
\* fails for a registered id, or starts the reconnect that may fail, the server
\* it was called for is still registered or a new one is registered for the new
\* config, and every other registration is where and what it was.
C39_UpdateNeverDrops ==
  [][(op.kind = "updateServer" /\ op.pc = "resume" /\ op.i = 0 /\ op'.i = 1
        /\ (op'.err # "" \/ op'.pc = "connect"))
       => /\ \/ op.old \in Registered'
             \/ \E c \in Registered' \ Registered : cfg'[c] = op.config
          /\ \A c \in Registered \ {op.old} : c \in Registered' /\ cfg'[c] = cfg[c]]_vars

\* C40: a registered server whose configuration is disabled is not moved to
\* connecting or connected by an automatic path: no step of the engine's
\* initialize() for a profile that refers to it starts its connection.
C40_DisabledNotConnected ==
  [][\A c \in Registered :
       (~cfg[c].enabled /\ status[c] \notin {"connecting", "connected"})
         => status'[c] \notin {"connecting", "connected"}]_vars

====
